---------------------------- MODULE Spec2Model ----------------------------
(***************************************************************************)
(* Per-owner call coordination of decorio: @singleflight, @mutex, @latest, *)
(* @debounced, @cached, @once and @timeout.                                *)
(*                                                                         *)
(* JavaScript runs one job at a time.  Every action below is one job: a    *)
(* call of a decorated method (the whole wrapper body), the settlement of  *)
(* a Promise returned by the wrapped operation, or one Promise reaction    *)
(* callback (then / catch / finally) run by the microtask queue.  A        *)
(* reaction never runs in the job that settles its Promise, so other jobs  *)
(* (among them further calls of the method) may run between the two.       *)
(* The wrapped operation is the environment: it returns a Promise that the *)
(* environment later fulfils or rejects, or it raises synchronously.  It   *)
(* is assumed not to call the decorated method again from inside its own   *)
(* synchronous part.  A timer callback is a job of its own, and the        *)
(* reactions it queues run before any other job that is not a reaction.    *)
(***************************************************************************)
EXTENDS Integers, Sequences, FiniteSets, TLC

(* Bounds of the exploration. *)
MaxSfCalls == 3

MaxMxCalls == 3

MaxLtCalls == 3

MaxDbCalls == 3

MaxCaCalls == 2

MaxOnCalls == 3

MaxAgCalls == 4

MaxToCalls == 2

(* timeoutMs of @timeout(timeoutMs). *)
TimeoutMs == 2

(* delayMs of @debounced(delayMs). *)
DelayMs == 2

Owners == {"o1", "o2"}

(* Argument values are primitives; an argument list is a Seq of them. *)
ArgLists == {<<1>>, <<2>>, <<1, 2>>}

VARIABLES
    sfStorage,   \* singleflight: Map<object, State>, State = [calls: Map]
    sfPromise,   \* the Promise returned by the execution started by call k
    sfCount,     \* number of calls of the decorated method made so far
    sfLast,      \* observation of the most recent call (what its caller saw)
    mxStorage,   \* mutex: Map<object, State>, State = [pending, tail]
    mxCall,      \* mutex: the closure of call k (its args, Promise, position)
    mxCount,     \* mutex: number of calls of the decorated method made so far
    ltStorage,   \* latest: Map<object, State>, owner -> state object
    ltState,     \* latest: the state objects [callIndex, resolvers, controller]
    ltCall,      \* latest: the closure of call k (its attempt, token, Promise)
    ltCount,     \* latest: number of calls of the decorated method made so far
    dbStorage,   \* debounced: Map<object, State>, owner -> state object
    dbState,     \* debounced: the state objects [callIndex, resolvers, timeout, controller]
    dbCall,      \* debounced: the closure of call k (its timer, attempt, token, Promise)
    dbCount,     \* debounced: number of calls of the decorated method made so far
    dbNow,       \* debounced: the clock of setTimeout
    caStorage,   \* cached: per decorated function, Map<object, State>, State = [calls: Map]
    caPromise,   \* cached: the Promise returned by the execution started by call k
    caCount,     \* cached: number of calls of decorated functions made so far
    caLast,      \* cached: observation of the most recent call (what its caller saw)
    onStorage,   \* once: Map<object, State>, State = [args, result]
    onPromise,   \* once: the result of the execution started by call k
    onCount,     \* once: number of calls of the decorated method made so far
    onLast,      \* once: observation of the most recent call (what its caller saw)
    agStack,     \* the operations being invoked synchronously, innermost last
    agLatest,    \* latest.signal (0 is undefined, k the token of attempt k)
    agDebounced, \* debounced.signal
    agCount,     \* number of invocations of wrapped operations so far
    agSeen,      \* what the operation of attempt k read from its accessor
    gcDropped,   \* the owners the program holds no reference to any more
    toCall,      \* timeout: the closure of call k (its controller, timer, Promise)
    toCount,     \* timeout: number of calls of the decorated method made so far
    toNow        \* timeout: the clock of setTimeout

sfVars == << sfStorage, sfPromise, sfCount, sfLast >>

mxVars == << mxStorage, mxCall, mxCount >>

ltVars == << ltStorage, ltState, ltCall, ltCount >>

dbVars == << dbStorage, dbState, dbCall, dbCount, dbNow >>

caVars == << caStorage, caPromise, caCount, caLast >>

onVars == << onStorage, onPromise, onCount, onLast >>

agVars == << agStack, agLatest, agDebounced, agCount, agSeen >>

gcVars == << gcDropped >>

toVars == << toCall, toCount, toNow >>

vars == << sfVars, mxVars, ltVars, dbVars, caVars, onVars, agVars, gcVars, toVars >>

(* What the actions of one decorator leave alone: the other decorators. *)
sfOthers == << mxVars, ltVars, dbVars, caVars, onVars, agVars, gcVars,
             toVars >>

mxOthers == << sfVars, ltVars, dbVars, caVars, onVars, agVars, gcVars,
             toVars >>

ltOthers == << sfVars, mxVars, dbVars, caVars, onVars, agVars, gcVars,
             toVars >>

dbOthers == << sfVars, mxVars, ltVars, caVars, onVars, agVars, gcVars,
             toVars >>

caOthers == << sfVars, mxVars, ltVars, dbVars, onVars, agVars, gcVars,
             toVars >>

onOthers == << sfVars, mxVars, ltVars, dbVars, caVars, agVars, gcVars,
             toVars >>

agOthers == << sfVars, mxVars, ltVars, dbVars, caVars, onVars, gcVars,
             toVars >>

gcOthers == << sfVars, mxVars, ltVars, dbVars, caVars, onVars, agVars,
             toVars >>

toOthers == << sfVars, mxVars, ltVars, dbVars, caVars, onVars, agVars, gcVars >>

---------------------------------------------------------------------------
(* Mutant: a key that is absent is given the record of a key that is      *)
(* present.                                                                *)
EmplaceShared(target, key, fresh) ==
    IF key \in DOMAIN target \/ DOMAIN target = {} THEN (key :> fresh) @@ target
    ELSE (key :> target[CHOOSE x \in DOMAIN target : TRUE]) @@ target

(* Mutant: the factory is called and its value stored whether or not the   *)
(* key is present.                                                         *)
EmplaceAlwaysFresh(target, key, fresh) ==
    (key :> fresh) @@ [x \in DOMAIN target \ {key} |-> target[x]]

(* internal: emplace(target, key, factory) *)

EmplaceStore(target, key, fresh) ==
    IF key \in DOMAIN target THEN target ELSE (key :> fresh) @@ target

(* Mutant: the lengths are not compared. *)
FingerprintPrefix(callArgs, args) ==
    \A i \in 1..Len(callArgs) : i <= Len(args) /\ callArgs[i] = args[i]

(* callArgs.length === args.length && callArgs.every((arg, i) => arg === args[i]) *)
FingerprintEqual(callArgs, args) ==
    /\ Len(callArgs) = Len(args)
    /\ \A i \in 1..Len(callArgs) : callArgs[i] = args[i]

(* The record of owner o in a storage did not change in this step: it is   *)
(* absent before and after, or present and the same.                       *)
KeSameRecord(storage, storageAfter, o) ==
    /\ o \in DOMAIN storage <=> o \in DOMAIN storageAfter
    /\ o \in DOMAIN storage => storageAfter[o] = storage[o]

---------------------------------------------------------------------------
(* @singleflight                                                           *)
(* state.calls is an insertion-ordered Map keyed by the identity of the    *)
(* args array of the call that stored the entry.  A call is identified by  *)
(* its number k (the k-th call made); k names its args array and, when the *)
(* call executes the operation, the Promise the operation returned.        *)

SfIds == 1..MaxSfCalls

SfFreshState == [calls |-> << >>]

SfNoPromise == [status |-> "none", owner |-> "", args |-> << >>, cleaned |-> FALSE]

SfNoCall == [owner |-> "", args |-> << >>, ret |-> 0, exec |-> FALSE, raised |-> FALSE,
             inflight |-> {}, stale |-> {}, done |-> {}]

SfInit ==
    /\ sfStorage = << >>
    /\ sfPromise = [k \in SfIds |-> SfNoPromise]
    /\ sfCount = 0
    /\ sfLast = SfNoCall

(* Mutant: the scan never matches. *)
SfLookupNever(calls, args) == 0

(* The for..of scan: position of the first entry whose stored argument     *)
(* list is fingerprint-equal to args, 0 when there is none.                *)
SfLookup(calls, args) ==
    LET hits == {i \in 1..Len(calls) : FingerprintEqual(calls[i].args, args)}
    IN  IF hits = {} THEN 0 ELSE CHOOSE i \in hits : \A j \in hits : i <= j

(* Mutant: the settlement observer clears the whole Map. *)
SfDeleteAll(calls, key) == << >>

(* Mutant: the settlement observer removes nothing. *)
SfDeleteNothing(calls, key) == calls

(* state.calls.delete(args): removes the entry whose key is that array. *)
SfDelete(calls, key) ==
    SelectSeq(calls, LAMBDA e : e.key # key)

(* Executions of owner o started with the argument list a, by the state   *)
(* of the Promise the operation returned (read off the Promises, not off   *)
(* the Map the decorator keeps): still pending; settled with the finally   *)
(* callback not yet run; settled and the callback run.                     *)
SfExecs(o, a) ==
    {p \in SfIds : sfPromise[p].status # "none" /\ sfPromise[p].owner = o
                                                /\ sfPromise[p].args = a}

SfInFlight(o, a) == {p \in SfExecs(o, a) : sfPromise[p].status = "pending"}

SfStale(o, a) ==
    {p \in SfExecs(o, a) : sfPromise[p].status # "pending" /\ ~sfPromise[p].cleaned}

SfDone(o, a) == {p \in SfExecs(o, a) : sfPromise[p].cleaned}

(* One call of the decorated method on owner o with argument list a.  The  *)
(* operation, when invoked, returns a pending Promise or raises; a raise   *)
(* leaves the wrapper through originalFn.apply and reaches the caller.     *)
SfCall(o, a, raises) ==
    /\ sfCount < MaxSfCalls
    /\ UNCHANGED sfOthers
    /\ LET k     == sfCount + 1
           store == EmplaceStore(sfStorage, o, SfFreshState)
           calls == store[o].calls
           hit   == SfLookup(calls, a)
           seen  == [owner |-> o, args |-> a, inflight |-> SfInFlight(o, a),
                     stale |-> SfStale(o, a), done |-> SfDone(o, a)]
       IN  /\ sfCount' = k
           /\ IF hit # 0
              THEN LET p == calls[hit].result
                   IN  /\ sfStorage' = store
                       /\ sfLast' = seen @@ [ret |-> p, exec |-> FALSE, raised |-> FALSE]
                       /\ UNCHANGED sfPromise
              ELSE IF raises
              THEN /\ sfStorage' = store
                   /\ sfLast' = seen @@ [ret |-> 0, exec |-> TRUE, raised |-> TRUE]
                   /\ UNCHANGED sfPromise
              ELSE /\ sfStorage' = [store EXCEPT ![o].calls =
                                       Append(calls, [key |-> k, args |-> a, result |-> k])]
                   /\ sfPromise' = [sfPromise EXCEPT ![k] =
                                       [status |-> "pending", owner |-> o, args |-> a,
                                        cleaned |-> FALSE]]
                   /\ sfLast' = seen @@ [ret |-> k, exec |-> TRUE, raised |-> FALSE]

(* The environment settles the Promise of execution p. *)
SfSettle(p, how) ==
    /\ sfPromise[p].status = "pending"
    /\ sfPromise' = [sfPromise EXCEPT ![p].status = how]
    /\ UNCHANGED << sfStorage, sfCount, sfLast, sfOthers >>

(* The finally callback of execution p: state.calls.delete(args).  state   *)
(* is the object the call obtained from emplace; nothing ever removes it   *)
(* from storage, so it is still storage[owner].                            *)
SfFinally(p) ==
    /\ sfPromise[p].status \in {"fulfilled", "rejected"}
    /\ ~sfPromise[p].cleaned
    /\ sfStorage' = [sfStorage EXCEPT ![sfPromise[p].owner].calls = SfDelete(@, p)]
    /\ sfPromise' = [sfPromise EXCEPT ![p].cleaned = TRUE]
    /\ UNCHANGED << sfCount, sfLast, sfOthers >>

SfNext ==
    \/ \E o \in Owners, a \in ArgLists, raises \in BOOLEAN : SfCall(o, a, raises)
    \/ \E p \in SfIds, how \in {"fulfilled", "rejected"} : SfSettle(p, how)
    \/ \E p \in SfIds : SfFinally(p)

---------------------------------------------------------------------------
(* @mutex                                                                  *)
(* Call k of the decorated method creates its own Promise (resolvers())    *)
(* and a closure execute; state.tail holds the Promise the latest call     *)
(* left there: 0 is null, -1 is undefined, k > 0 is the Promise stored by  *)
(* call k (execute()'s chain, or tail.then(execute)).                      *)

MxIds == 1..MaxMxCalls

MxArgLists == {<<1>>, <<2>>}

MxFreshState == [pending |-> 0, tail |-> 0]

MxNoCall == [owner |-> "", args |-> << >>, pos |-> "none", pred |-> 0, how |-> "none",
             ret |-> 0, thrown |-> FALSE, outcome |-> "pending", value |-> << >>,
             tailP |-> "none", during |-> {}, idle |-> FALSE]

MxInit ==
    /\ mxStorage = << >>
    /\ mxCall = [k \in MxIds |-> MxNoCall]
    /\ mxCount = 0

(* Mutant: a new call never waits for the tail. *)
MxNeverQueue(tail) == FALSE

(* state.tail ? state.tail.then(execute) : execute() *)
MxTruthy(tail) == tail > 0

(* Mutant: finalize decrements the count and never clears the tail. *)
MxFinalizeKeepTail(state) == [pending |-> state.pending - 1, tail |-> state.tail]

(* Mutant: finalize clears the tail whatever the count. *)
MxFinalizeAlwaysClear(state) == [pending |-> state.pending - 1, tail |-> 0]

(* finalize: if (!--state.pending) state.tail = null *)
MxFinalize(state) ==
    LET n == state.pending - 1
    IN  [pending |-> n, tail |-> IF n = 0 THEN 0 ELSE state.tail]

(* Mutant: the operation is applied without the call's arguments. *)
MxApplyNoArgs(args, how) == << how, << >> >>

(* What originalFn.apply(this, args) yields: the settlement how, computed  *)
(* from the argument list it was applied to.                               *)
MxApply(args, how) == << how, args >>

(* Mutant: the rejection is not absorbed before the chain is stored. *)
MxChainNoCatch(how) == IF how = "rejected" THEN "rejected" ELSE "fulfilled"

(* The Promise execute returns,                                            *)
(* originalFn.apply(..).then(resolve).catch(reject).finally(finalize):     *)
(* catch(reject) turns a rejection into a fulfilment, finally keeps it.    *)
MxChainSettles(how) == "fulfilled"

(* Mutant: a call made while the tail is set is given the Promise of the   *)
(* call in flight.                                                         *)
MxReturnedShared(k, tail) == IF tail > 0 THEN tail ELSE k

(* const { promise, resolve, reject } = resolvers(); ... return promise    *)
MxReturned(k, tail) == k

(* Mutant: execute without its try/catch. *)
MxExecuteNoCatch(state, args, raises) ==
    IF raises
    THEN [state |-> state, pos |-> "finished", how |-> "raised", thrown |-> TRUE,
          outcome |-> "pending", value |-> << >>, tailP |-> "rejected"]
    ELSE [state |-> state, pos |-> "running", how |-> "none", thrown |-> FALSE,
          outcome |-> "pending", value |-> << >>, tailP |-> "pending"]

(* Mutant: the catch block rejects but does not finalize. *)
MxExecuteNoFinalize(state, args, raises) ==
    IF raises
    THEN [state |-> state, pos |-> "finished", how |-> "raised", thrown |-> FALSE,
          outcome |-> "rejected", value |-> MxApply(args, "raised"), tailP |-> "fulfilled"]
    ELSE [state |-> state, pos |-> "running", how |-> "none", thrown |-> FALSE,
          outcome |-> "pending", value |-> << >>, tailP |-> "pending"]

(* execute(): the operation is invoked; when it raises the catch block     *)
(* runs finalize() and reject(error) and execute returns undefined (a      *)
(* then-callback returning undefined fulfils the Promise of that then).    *)
MxExecute(state, args, raises) ==
    IF raises
    THEN [state |-> MxFinalize(state), pos |-> "finished", how |-> "raised",
          thrown |-> FALSE, outcome |-> "rejected", value |-> MxApply(args, "raised"),
          tailP |-> "fulfilled"]
    ELSE [state |-> state, pos |-> "running", how |-> "none", thrown |-> FALSE,
          outcome |-> "pending", value |-> << >>, tailP |-> "pending"]

(* The calls of owner o whose operation has been invoked and has not yet   *)
(* settled, and whether every call made on o so far has run its finalize   *)
(* (both read off the closures, not off state.pending and state.tail).     *)
MxRunning(o) == {j \in MxIds : mxCall[j].owner = o /\ mxCall[j].pos = "running"}

MxIdle(o) == \A j \in MxIds : mxCall[j].owner = o => mxCall[j].pos = "finished"

(* One call of the decorated method on owner o with argument list a.       *)
(* raises: whether the operation raises when invoked (it is invoked in     *)
(* this job only when the tail is not set).                                *)
MxCall(o, a, raises) ==
    /\ mxCount < MaxMxCalls
    /\ UNCHANGED mxOthers
    /\ LET k     == mxCount + 1
           store == EmplaceStore(mxStorage, o, MxFreshState)
           st    == [store[o] EXCEPT !.pending = @ + 1]
           base  == [owner |-> o, args |-> a, ret |-> MxReturned(k, st.tail),
                     during |-> MxRunning(o), idle |-> MxIdle(o)]
       IN  /\ mxCount' = k
           /\ IF MxTruthy(st.tail)
              THEN /\ ~raises
                   /\ mxStorage' = [store EXCEPT ![o] = [st EXCEPT !.tail = k]]
                   /\ mxCall' = [mxCall EXCEPT ![k] =
                          base @@ [pos |-> "queued", pred |-> st.tail, how |-> "none",
                                   thrown |-> FALSE, outcome |-> "pending",
                                   value |-> << >>, tailP |-> "pending"]]
              ELSE LET x == MxExecute(st, a, raises)
                   IN  /\ mxStorage' = [store EXCEPT ![o] =
                              IF x.thrown THEN x.state
                              ELSE [x.state EXCEPT !.tail = IF raises THEN -1 ELSE k]]
                       /\ mxCall' = [mxCall EXCEPT ![k] =
                              [base EXCEPT !.ret = IF x.thrown THEN 0 ELSE @] @@
                              [pred |-> 0, pos |-> x.pos, how |-> x.how,
                               thrown |-> x.thrown, outcome |-> x.outcome,
                               value |-> x.value,
                               tailP |-> IF raises THEN "none" ELSE x.tailP]]

(* The continuation tail.then(execute) of a queued call: it runs once the  *)
(* Promise it was chained on is fulfilled.                                 *)
MxRunQueued(k, raises) ==
    /\ mxCall[k].pos = "queued"
    /\ mxCall[mxCall[k].pred].tailP = "fulfilled"
    /\ UNCHANGED << mxCount, mxOthers >>
    /\ LET o == mxCall[k].owner
           x == MxExecute(mxStorage[o], mxCall[k].args, raises)
       IN  /\ mxStorage' = [mxStorage EXCEPT ![o] = x.state]
           /\ mxCall' = [mxCall EXCEPT ![k] =
                  [@ EXCEPT !.pos = x.pos, !.how = x.how, !.thrown = x.thrown,
                            !.outcome = x.outcome, !.value = x.value, !.tailP = x.tailP]]

(* The environment settles the Promise the operation returned to call k. *)
MxOpSettle(k, how) ==
    /\ mxCall[k].pos = "running"
    /\ mxCall' = [mxCall EXCEPT ![k] = [@ EXCEPT !.pos = "settled", !.how = how]]
    /\ UNCHANGED << mxStorage, mxCount, mxOthers >>

(* .then(resolve) on a fulfilment, .catch(reject) on a rejection: the      *)
(* call's own Promise is settled.                                          *)
MxDeliver(k) ==
    /\ mxCall[k].pos = "settled"
    /\ mxCall' = [mxCall EXCEPT ![k] =
           [@ EXCEPT !.pos = "delivered", !.outcome = mxCall[k].how,
                     !.value = MxApply(mxCall[k].args, mxCall[k].how)]]
    /\ UNCHANGED << mxStorage, mxCount, mxOthers >>

(* .finally(finalize), after which the chain execute returned settles. *)
MxFinally(k) ==
    /\ mxCall[k].pos = "delivered"
    /\ mxStorage' = [mxStorage EXCEPT ![mxCall[k].owner] = MxFinalize(@)]
    /\ mxCall' = [mxCall EXCEPT ![k] =
           [@ EXCEPT !.pos = "finished", !.tailP = MxChainSettles(mxCall[k].how)]]
    /\ UNCHANGED << mxCount, mxOthers >>

MxNext ==
    \/ \E o \in Owners, a \in MxArgLists, raises \in BOOLEAN : MxCall(o, a, raises)
    \/ \E k \in MxIds, raises \in BOOLEAN : MxRunQueued(k, raises)
    \/ \E k \in MxIds, how \in {"fulfilled", "rejected"} : MxOpSettle(k, how)
    \/ \E k \in MxIds : MxDeliver(k)
    \/ \E k \in MxIds : MxFinally(k)

---------------------------------------------------------------------------
(* @latest                                                                 *)
(* storage maps an owner to a state object; ltState is the heap of these   *)
(* objects, named by the call that created them, because the closures of   *)
(* earlier attempts keep their object after storage.delete(this).          *)
(* A controller is named by the call that created it (0 is null).          *)

LtIds == 1..MaxLtCalls

LtArgLists == {<<1>>, <<2>>}

LtFreshState == [callIndex |-> -1, resolvers |-> << >>, controller |-> 0]

LtNoCall == [owner |-> "", args |-> << >>, sid |-> 0, callIndex |-> -1, pos |-> "none",
             how |-> "none", aborts |-> 0, status |-> "pending", by |-> 0,
             value |-> << >>, follows |-> 0, applied |-> << >>]

LtInit ==
    /\ ltStorage = << >>
    /\ ltState = << >>
    /\ ltCall = [k \in LtIds |-> LtNoCall]
    /\ ltCount = 0

(* Mutant: a settled attempt never sees itself superseded. *)
LtNeverStale(state, callIndex) == FALSE

(* if (state.callIndex > callIndex) return; *)
LtStale(state, callIndex) == state.callIndex > callIndex

(* Mutant: the result is computed without the call's arguments. *)
LtApplyNoArgs(args, how) == << how, << >> >>

(* What originalFn.apply(this, args) yields: the settlement how, computed  *)
(* from the argument list it was applied to.                               *)
LtApply(args, how) == << how, args >>

(* Mutant: only the settling call's own resolver is captured. *)
LtCaptureOwn(state, k) == {k}

(* const resolvers = [...state.resolvers]: the calls whose resolve/reject   *)
(* pairs are captured by the reaction of call k.                           *)
LtCapture(state, k) == {state.resolvers[i] : i \in 1..Len(state.resolvers)}

(* Mutant: the operation is invoked without the call's arguments. *)
LtInvokedWithNone(args) == << >>

(* result = originalFn.apply(this, args): the argument list the operation  *)
(* is invoked with, inside the Promise executor of the call.               *)
LtInvokedWith(args) == args

(* Mutant: a new call does not abort the controller in the record. *)
LtAbortNothing(calls, state) == calls

(* if (state.controller !== null) { state.controller.abort();              *)
(*                                  state.controller = null; }             *)
LtAbort(calls, state) ==
    IF state.controller # 0
    THEN [calls EXCEPT ![state.controller] = [@ EXCEPT !.aborts = @ + 1]]
    ELSE calls

(* The most recent call made on owner o, when its attempt is still         *)
(* unsettled (0 otherwise).                                                *)
LtUnsettledBefore(o) ==
    LET mine == {j \in LtIds : ltCall[j].owner = o}
    IN  IF mine = {} THEN 0
        ELSE LET last == CHOOSE j \in mine : \A i \in mine : i <= j
             IN  IF ltCall[last].pos = "running" THEN last ELSE 0

(* One call of the decorated method on owner o with argument list a.       *)
(* raises: the operation raises when invoked; the Promise executor turns   *)
(* the raise into a rejection of the returned Promise, after the resolver  *)
(* pair was pushed and the controller stored, and no reaction is attached. *)
LtCall(o, a, raises) ==
    /\ ltCount < MaxLtCalls
    /\ UNCHANGED ltOthers
    /\ LET k     == ltCount + 1
           store == EmplaceStore(ltStorage, o, k)
           sid   == store[o]
           st0   == IF o \in DOMAIN ltStorage THEN ltState[sid] ELSE LtFreshState
           st1   == [callIndex  |-> st0.callIndex + 1,
                     resolvers  |-> Append(st0.resolvers, k),
                     controller |-> k]
           me    == [owner |-> o, args |-> a, sid |-> sid, callIndex |-> st1.callIndex,
                     aborts |-> 0, follows |-> LtUnsettledBefore(o),
                     applied |-> LtInvokedWith(a)]
       IN  /\ ltCount' = k
           /\ ltStorage' = store
           /\ ltState' = (sid :> st1) @@ ltState
           /\ ltCall' = [LtAbort(ltCall, st0) EXCEPT ![k] =
                  IF raises
                  THEN me @@ [pos |-> "raised", how |-> "raised", status |-> "rejected",
                              by |-> k, value |-> LtApply(me.applied, "raised")]
                  ELSE me @@ [pos |-> "running", how |-> "none", status |-> "pending",
                              by |-> 0, value |-> << >>]]

(* The environment settles the Promise the operation returned to call k. *)
LtOpSettle(k, how) ==
    /\ ltCall[k].pos = "running"
    /\ ltCall' = [ltCall EXCEPT ![k] = [@ EXCEPT !.pos = "settled", !.how = how]]
    /\ UNCHANGED << ltStorage, ltState, ltCount, ltOthers >>

(* The reaction of call k's attempt: the then callback on a fulfilment,    *)
(* the catch callback on a rejection.  A superseded attempt returns; the   *)
(* current one captures the resolvers, deletes the owner's storage entry   *)
(* and settles every captured Promise that is still pending.               *)
LtReact(k) ==
    /\ ltCall[k].pos = "settled"
    /\ UNCHANGED << ltState, ltCount, ltOthers >>
    /\ LET st == ltState[ltCall[k].sid]
           o  == ltCall[k].owner
       IN  IF LtStale(st, ltCall[k].callIndex)
           THEN /\ ltCall' = [ltCall EXCEPT ![k] = [@ EXCEPT !.pos = "reacted"]]
                /\ UNCHANGED ltStorage
           ELSE /\ ltStorage' = [x \in DOMAIN ltStorage \ {o} |-> ltStorage[x]]
                /\ ltCall' = [j \in LtIds |->
                       LET c == IF j = k THEN [ltCall[j] EXCEPT !.pos = "reacted"]
                                         ELSE ltCall[j]
                       IN  IF j \in LtCapture(st, k) /\ c.status = "pending"
                           THEN [c EXCEPT !.status = ltCall[k].how, !.by = k,
                                          !.value = LtApply(ltCall[k].applied, ltCall[k].how)]
                           ELSE c]

LtNext ==
    \/ \E o \in Owners, a \in LtArgLists, raises \in BOOLEAN : LtCall(o, a, raises)
    \/ \E k \in LtIds, how \in {"fulfilled", "rejected"} : LtOpSettle(k, how)
    \/ \E k \in LtIds : LtReact(k)

---------------------------------------------------------------------------
(* @debounced(delayMs)                                                     *)
(* As in @latest, dbState is the heap of state objects, named by the call  *)
(* that created them.  A timer and a controller are named by the call that *)
(* created them (0 is null).  dbNow is the clock of setTimeout: a timer    *)
(* set at instant t runs at t + delayMs, and the clock does not pass a     *)
(* timer that is due.                                                      *)

DbIds == 1..MaxDbCalls

(* The decorated method never reads its arguments; call k passes a list    *)
(* of its own, so that a result tells which call's arguments made it.      *)
DbArgsOf(k) == << k >>

DbHorizon == 2 * DelayMs

DbFreshState == [callIndex |-> -1, resolvers |-> << >>, timeout |-> 0, controller |-> 0]

DbNoCall == [owner |-> "", args |-> << >>, sid |-> 0, callIndex |-> -1, at |-> 0,
             firedAt |-> -1, pos |-> "none", how |-> "none", aborts |-> 0,
             status |-> "pending", by |-> 0, value |-> << >>]

DbInit ==
    /\ dbStorage = << >>
    /\ dbState = << >>
    /\ dbCall = [k \in DbIds |-> DbNoCall]
    /\ dbCount = 0
    /\ dbNow = 0

(* Mutant: a settled attempt never sees itself superseded. *)
DbNeverStale(state, callIndex) == FALSE

(* if (state.callIndex > callIndex) return; *)
DbStale(state, callIndex) == state.callIndex > callIndex

(* Mutant: the result is computed without the call's arguments. *)
DbApplyNoArgs(args, how) == << how, << >> >>

(* What originalFn.apply(this, args) yields: the settlement how, computed  *)
(* from the argument list it was applied to.                               *)
DbApply(args, how) == << how, args >>

(* Mutant: only the settling call's own resolver is captured. *)
DbCaptureOwn(state, k) == {k}

(* const resolvers = [...state.resolvers] *)
DbCapture(state, k) == {state.resolvers[i] : i \in 1..Len(state.resolvers)}

(* Mutant: the pending timers of all owners are cleared. *)
DbClearEvery(calls, state) ==
    [j \in DOMAIN calls |->
        IF calls[j].pos = "waiting" THEN [calls[j] EXCEPT !.pos = "cleared"] ELSE calls[j]]

(* Mutant: the pending timer is left running. *)
DbClearNothing(calls, state) == calls

(* if (state.timeout !== null) { clearTimeout(state.timeout);              *)
(*                               state.timeout = null; }                   *)
(* clearTimeout of a timer that has already run does nothing.              *)
DbClearTimeout(calls, state) ==
    IF state.timeout # 0 /\ calls[state.timeout].pos = "waiting"
    THEN [calls EXCEPT ![state.timeout] = [@ EXCEPT !.pos = "cleared"]]
    ELSE calls

(* Mutant: a new call does not abort the controller in the record. *)
DbAbortNothing(calls, state) == calls

(* if (state.controller !== null) { state.controller.abort();              *)
(*                                  state.controller = null; }             *)
DbAbort(calls, state) ==
    IF state.controller # 0
    THEN [calls EXCEPT ![state.controller] = [@ EXCEPT !.aborts = @ + 1]]
    ELSE calls

(* Mutant: the record stays in the storage. *)
DbForgetNothing(storage, o) == storage

(* storage.delete(this) *)
DbForget(storage, o) == [x \in DOMAIN storage \ {o} |-> storage[x]]

(* Mutant: the timer runs at once. *)
DbDueAtOnce(at) == at

(* setTimeout(..., delayMs) called at instant at *)
DbDue(at) == at + DelayMs

(* One call of the decorated method on owner o with argument list a. *)
DbCall(o, a) ==
    /\ dbCount < MaxDbCalls
    /\ UNCHANGED << dbNow, dbOthers >>
    /\ LET k     == dbCount + 1
           store == EmplaceStore(dbStorage, o, k)
           sid   == store[o]
           st0   == IF o \in DOMAIN dbStorage THEN dbState[sid] ELSE DbFreshState
           st1   == [callIndex  |-> st0.callIndex + 1,
                     resolvers  |-> Append(st0.resolvers, k),
                     timeout    |-> k,
                     controller |-> 0]
       IN  /\ dbCount' = k
           /\ dbStorage' = store
           /\ dbState' = (sid :> st1) @@ dbState
           /\ dbCall' = [DbAbort(DbClearTimeout(dbCall, st0), st0) EXCEPT ![k] =
                  [DbNoCall EXCEPT !.owner = o, !.args = a, !.sid = sid,
                                   !.callIndex = st1.callIndex, !.at = dbNow,
                                   !.pos = "waiting"]]

(* The timer callback of call k and the reaction it queues with            *)
(* Promise.resolve().then(...): the controller is created and stored, and  *)
(* the operation is invoked.  raises: the operation raises; the rejection  *)
(* then reaches the catch callback like an asynchronous one.               *)
DbFire(k, raises) ==
    /\ dbCall[k].pos = "waiting"
    /\ dbNow = DbDue(dbCall[k].at)
    /\ UNCHANGED << dbStorage, dbCount, dbNow, dbOthers >>
    /\ dbState' = [dbState EXCEPT ![dbCall[k].sid] = [@ EXCEPT !.controller = k]]
    /\ dbCall' = [dbCall EXCEPT ![k] =
           IF raises
           THEN [@ EXCEPT !.pos = "settled", !.how = "raised", !.firedAt = dbNow]
           ELSE [@ EXCEPT !.pos = "running", !.firedAt = dbNow]]

(* The environment settles the Promise the operation returned to call k. *)
DbOpSettle(k, how) ==
    /\ dbCall[k].pos = "running"
    /\ dbCall' = [dbCall EXCEPT ![k] = [@ EXCEPT !.pos = "settled", !.how = how]]
    /\ UNCHANGED << dbStorage, dbState, dbCount, dbNow, dbOthers >>

(* The reaction of call k's attempt: the then callback on a fulfilment,    *)
(* the catch callback on a rejection or a raise.                           *)
DbReact(k) ==
    /\ dbCall[k].pos = "settled"
    /\ UNCHANGED << dbState, dbCount, dbNow, dbOthers >>
    /\ LET st == dbState[dbCall[k].sid]
           o  == dbCall[k].owner
       IN  IF DbStale(st, dbCall[k].callIndex)
           THEN /\ dbCall' = [dbCall EXCEPT ![k] = [@ EXCEPT !.pos = "reacted"]]
                /\ UNCHANGED dbStorage
           ELSE /\ dbStorage' = DbForget(dbStorage, o)
                /\ dbCall' = [j \in DbIds |->
                       LET c == IF j = k THEN [dbCall[j] EXCEPT !.pos = "reacted"]
                                         ELSE dbCall[j]
                       IN  IF j \in DbCapture(st, k) /\ c.status = "pending"
                           THEN [c EXCEPT !.status = IF dbCall[k].how = "fulfilled"
                                                     THEN "fulfilled" ELSE "rejected",
                                          !.by = k,
                                          !.value = DbApply(dbCall[k].args, dbCall[k].how)]
                           ELSE c]

(* One millisecond passes while a timer is pending; a timer that is due    *)
(* runs first.  Time that passes while no timer is pending is not observed *)
(* by the decorated method.                                                *)
DbTick ==
    /\ dbNow < DbHorizon
    /\ \E k \in DbIds : dbCall[k].pos = "waiting"
    /\ \A k \in DbIds : dbCall[k].pos = "waiting" => dbNow < DbDue(dbCall[k].at)
    /\ dbNow' = dbNow + 1
    /\ UNCHANGED << dbStorage, dbState, dbCall, dbCount, dbOthers >>

DbNext ==
    \/ \E o \in Owners : DbCall(o, DbArgsOf(dbCount + 1))
    \/ \E k \in DbIds, raises \in BOOLEAN : DbFire(k, raises)
    \/ \E k \in DbIds, how \in {"fulfilled", "rejected"} : DbOpSettle(k, how)
    \/ \E k \in DbIds : DbReact(k)
    \/ DbTick

---------------------------------------------------------------------------
(* @cached                                                                 *)
(* Two decorated functions F and G, each with the storage its apply()      *)
(* created; storages (a WeakMap) registers the original and the patched    *)
(* function of each.  An entry of state.calls is keyed by the args array   *)
(* of the call that stored it, named by the number of that call; its       *)
(* result is a value or a Promise, named by the same number.  The catch    *)
(* callback deletes its key from the state object it captured; a key is    *)
(* never in two state objects, so deleting it from the owner's current     *)
(* state object is the same.                                               *)

CaIds == 1..MaxCaCalls

CaFns == {"F", "G"}

CaArgLists == {<<1>>, <<2>>}

CaTargets == {"F_original", "F_patched", "G_original", "G_patched", "unrelated"}

(* The decorated operation a function object belongs to: its original     *)
(* function or its patched function ("" for a function never decorated).  *)
CaOperationOf(t) ==
    IF t \in {"F_original", "F_patched"} THEN "F"
    ELSE IF t \in {"G_original", "G_patched"} THEN "G" ELSE ""

CaNoPromise == [kind |-> "none", status |-> "none", fn |-> "", owner |-> "", args |-> << >>,
                cleared |-> FALSE, caught |-> FALSE]

CaNoCall == [fn |-> "", owner |-> "", args |-> << >>, ret |-> 0, exec |-> FALSE,
             raised |-> FALSE, live |-> {}]

CaInit ==
    /\ caStorage = [f \in CaFns |-> << >>]
    /\ caPromise = [k \in CaIds |-> CaNoPromise]
    /\ caCount = 0
    /\ caLast = CaNoCall

(* Mutant: every function is registered with the storage of G. *)
CaStoragesShared == [t \in CaTargets \ {"unrelated"} |-> "G"]

(* Mutant: only the patched function is registered. *)
CaStoragesPatchedOnly == ("F_patched" :> "F") @@ ("G_patched" :> "G")

(* storages.set(originalFn, storage); storages.set(patchedFn, storage) *)
CaStorages ==
    ("F_original" :> "F") @@ ("F_patched" :> "F") @@
    ("G_original" :> "G") @@ ("G_patched" :> "G")

(* Mutant: the scan never finds an entry. *)
CaLookupNever(calls, args) == 0

(* for (const [callArgs, callResult] of state.calls.entries()): the index  *)
(* of the first entry whose args are fingerprint-equal, 0 when none.       *)
CaLookup(calls, args) ==
    LET hits == {i \in 1..Len(calls) : FingerprintEqual(calls[i].args, args)}
    IN  IF hits = {} THEN 0 ELSE CHOOSE i \in hits : \A j \in hits : i <= j

(* Mutant: the catch callback empties the Map. *)
CaDeleteAll(calls, key) == << >>

(* state.calls.delete(args) *)
CaDelete(calls, key) == SelectSeq(calls, LAMBDA e : e.key # key)

(* Mutant: clear() of the storage of the other function too. *)
CaClearAll(storage, f) == [g \in CaFns |-> << >>]

(* Mutant: clear() does nothing. *)
CaClearNothing(storage, f) == storage

(* storage.clear() on the storage of f *)
CaClear(storage, f) == [storage EXCEPT ![f] = << >>]

(* The executions of f on owner o with fingerprint-equal arguments whose   *)
(* result is still to be served: not invalidated since, and not a Promise  *)
(* whose rejection has been handled.                                       *)
CaLive(f, o, a) ==
    {k \in CaIds : /\ caPromise[k].kind # "none"
                   /\ caPromise[k].fn = f /\ caPromise[k].owner = o
                   /\ FingerprintEqual(caPromise[k].args, a)
                   /\ ~caPromise[k].cleared /\ ~caPromise[k].caught}

(* One call of patchedFn of f on owner o with argument list a.             *)
(* kind: what the operation does if it is invoked: return a value, return  *)
(* a Promise, or raise.                                                    *)
CaCall(f, o, a, kind) ==
    /\ caCount < MaxCaCalls
    /\ UNCHANGED caOthers
    /\ LET k     == caCount + 1
           store == EmplaceStore(caStorage[f], o, << >>)
           calls == store[o]
           i     == CaLookup(calls, a)
           me    == [fn |-> f, owner |-> o, args |-> a, live |-> CaLive(f, o, a)]
       IN  /\ caCount' = k
           /\ IF i # 0
              THEN /\ caStorage' = [caStorage EXCEPT ![f] = store]
                   /\ caPromise' = caPromise
                   /\ caLast' = me @@ [ret |-> calls[i].result, exec |-> FALSE,
                                       raised |-> FALSE]
              ELSE IF kind = "raise"
              THEN /\ caStorage' = [caStorage EXCEPT ![f] = store]
                   /\ caPromise' = caPromise
                   /\ caLast' = me @@ [ret |-> 0, exec |-> TRUE, raised |-> TRUE]
              ELSE /\ caStorage' = [caStorage EXCEPT ![f] =
                          [store EXCEPT ![o] =
                              Append(calls, [key |-> k, args |-> a, result |-> k])]]
                   /\ caPromise' = [caPromise EXCEPT ![k] =
                          [kind |-> kind, fn |-> f, owner |-> o, args |-> a,
                           status |-> IF kind = "promise" THEN "pending" ELSE "value",
                           cleared |-> FALSE, caught |-> FALSE]]
                   /\ caLast' = me @@ [ret |-> k, exec |-> TRUE, raised |-> FALSE]

(* The environment settles the Promise returned to call p. *)
CaSettle(p, how) ==
    /\ caPromise[p].status = "pending"
    /\ caPromise' = [caPromise EXCEPT ![p] = [@ EXCEPT !.status = how]]
    /\ UNCHANGED << caStorage, caCount, caLast, caOthers >>

(* result.catch(() => state.calls.delete(args)) *)
CaCatch(p) ==
    /\ caPromise[p].status = "rejected"
    /\ ~caPromise[p].caught
    /\ caPromise' = [caPromise EXCEPT ![p] = [@ EXCEPT !.caught = TRUE]]
    /\ LET f == caPromise[p].fn
           o == caPromise[p].owner
       IN  caStorage' = IF o \in DOMAIN caStorage[f]
                        THEN [caStorage EXCEPT ![f] =
                                 [@ EXCEPT ![o] = CaDelete(@, p)]]
                        ELSE caStorage
    /\ UNCHANGED << caCount, caLast, caOthers >>

(* cached.invalidate(target): the storage registered for target, if any,  *)
(* is cleared.  The results obtained so far from the operation target      *)
(* belongs to are marked as invalidated.                                   *)
CaInvalidate(t) ==
    /\ UNCHANGED << caCount, caLast, caOthers >>
    /\ caStorage' = IF t \in DOMAIN CaStorages
                    THEN CaClear(caStorage, CaStorages[t])
                    ELSE caStorage
    /\ caPromise' = [k \in CaIds |->
           IF caPromise[k].kind # "none" /\ caPromise[k].fn = CaOperationOf(t)
           THEN [caPromise[k] EXCEPT !.cleared = TRUE]
           ELSE caPromise[k]]

CaNext ==
    \/ \E f \in CaFns, o \in Owners, a \in CaArgLists,
          kind \in {"value", "promise", "raise"} : CaCall(f, o, a, kind)
    \/ \E p \in CaIds, how \in {"fulfilled", "rejected"} : CaSettle(p, how)
    \/ \E p \in CaIds : CaCatch(p)
    \/ \E t \in CaTargets : CaInvalidate(t)

---------------------------------------------------------------------------
(* @once                                                                   *)
(* storage maps an owner to one state object { args, result }: the args    *)
(* array of the call that stored it, named by the number of that call      *)
(* (0 is null), and the result, a value or a Promise, named by the same    *)
(* number.  A miss replaces the state object of the owner.                 *)

OnIds == 1..MaxOnCalls

OnArgLists == {<<1>>, <<2>>}

OnFreshState == [key |-> 0, args |-> << >>, result |-> 0]

OnNoPromise == [kind |-> "none", status |-> "none", owner |-> "", args |-> << >>,
                caught |-> FALSE]

OnNoCall == [owner |-> "", args |-> << >>, ret |-> 0, exec |-> FALSE, raised |-> FALSE]

OnInit ==
    /\ onStorage = << >>
    /\ onPromise = [k \in OnIds |-> OnNoPromise]
    /\ onCount = 0
    /\ onLast = OnNoCall

(* Mutant: the stored arguments never match. *)
OnHitNever(state, args) == FALSE

(* state.args && state.args.length === args.length &&                      *)
(* state.args.every((latestArg, index) => latestArg === args[index])       *)
OnHit(state, args) == state.key # 0 /\ FingerprintEqual(state.args, args)

(* Mutant: the catch callback deletes the record whatever it holds. *)
OnStillMineAlways(storage, o, key) == o \in DOMAIN storage

(* Mutant: the catch callback never deletes. *)
OnStillMineNever(storage, o, key) == FALSE

(* storage.get(this)?.args === args *)
OnStillMine(storage, o, key) == o \in DOMAIN storage /\ storage[o].key = key

(* Mutant: the records of all owners are deleted. *)
OnForgetAll(storage, o) == << >>

(* storage.delete(this) *)
OnForget(storage, o) == [x \in DOMAIN storage \ {o} |-> storage[x]]

(* One call of the decorated method on owner o with argument list a.       *)
(* kind: what the operation does if it is invoked: return a value, return  *)
(* a Promise, or raise (the raise leaves the wrapper, nothing is stored).  *)
OnCall(o, a, kind) ==
    /\ onCount < MaxOnCalls
    /\ UNCHANGED onOthers
    /\ LET k     == onCount + 1
           store == EmplaceStore(onStorage, o, OnFreshState)
           state == store[o]
           me    == [owner |-> o, args |-> a]
       IN  /\ onCount' = k
           /\ IF OnHit(state, a)
              THEN /\ onStorage' = store
                   /\ onPromise' = onPromise
                   /\ onLast' = me @@ [ret |-> state.result, exec |-> FALSE,
                                       raised |-> FALSE]
              ELSE IF kind = "raise"
              THEN /\ onStorage' = store
                   /\ onPromise' = [onPromise EXCEPT ![k] =
                          [kind |-> "raise", status |-> "raised", owner |-> o,
                           args |-> a, caught |-> FALSE]]
                   /\ onLast' = me @@ [ret |-> 0, exec |-> TRUE, raised |-> TRUE]
              ELSE /\ onStorage' = [store EXCEPT ![o] =
                          [key |-> k, args |-> a, result |-> k]]
                   /\ onPromise' = [onPromise EXCEPT ![k] =
                          [kind |-> kind, owner |-> o, args |-> a,
                           status |-> IF kind = "promise" THEN "pending" ELSE "value",
                           caught |-> FALSE]]
                   /\ onLast' = me @@ [ret |-> k, exec |-> TRUE, raised |-> FALSE]

(* The environment settles the Promise returned to call p. *)
OnSettle(p, how) ==
    /\ onPromise[p].status = "pending"
    /\ onPromise' = [onPromise EXCEPT ![p] = [@ EXCEPT !.status = how]]
    /\ UNCHANGED << onStorage, onCount, onLast, onOthers >>

(* result.catch(() => { if (storage.get(this)?.args === args)              *)
(*                        storage.delete(this); })                         *)
OnCatch(p) ==
    /\ onPromise[p].status = "rejected"
    /\ ~onPromise[p].caught
    /\ onPromise' = [onPromise EXCEPT ![p] = [@ EXCEPT !.caught = TRUE]]
    /\ LET o == onPromise[p].owner
       IN  onStorage' = IF OnStillMine(onStorage, o, p)
                        THEN OnForget(onStorage, o)
                        ELSE onStorage
    /\ UNCHANGED << onCount, onLast, onOthers >>

OnNext ==
    \/ \E o \in Owners, a \in OnArgLists, kind \in {"value", "promise", "raise"} :
          OnCall(o, a, kind)
    \/ \E p \in OnIds, how \in {"fulfilled", "rejected"} : OnSettle(p, how)
    \/ \E p \in OnIds : OnCatch(p)

---------------------------------------------------------------------------
(* latest.signal and debounced.signal                                      *)
(* The two accessors are properties of the functions latest and debounced, *)
(* one each for all decorated methods and all owners.  Here the inside of  *)
(* one job is followed: agStack holds the wrapped operations whose         *)
(* synchronous part is being executed, the innermost last.  @latest        *)
(* invokes its operation inside the call, which may itself be made by an   *)
(* operation that is being invoked (a call of another decorated method, or *)
(* of the same method on another owner); @debounced invokes its operation  *)
(* in a then callback, that is at the bottom of a job.  Attempt k has the  *)
(* token k.                                                                *)

AgIds == 1..MaxAgCalls

AgInit ==
    /\ agStack = << >>
    /\ agLatest = 0
    /\ agDebounced = 0
    /\ agCount = 0
    /\ agSeen = [k \in AgIds |-> {}]

(* The operation that is executing: the innermost invocation. *)
AgTop == agStack[Len(agStack)]

(* The invocation below gets to know that it made a call. *)
AgNested(stack) ==
    IF stack = << >> THEN stack
    ELSE [stack EXCEPT ![Len(stack)] = [@ EXCEPT !.nested = TRUE]]

(* Mutant: the accessor is restored to the token of the invocation that    *)
(* continues.                                                              *)
AgRestore(stack, deco) ==
    LET below == {i \in 1..(Len(stack) - 1) : stack[i].deco = deco}
    IN  IF below = {} THEN 0
        ELSE stack[CHOOSE i \in below : \A j \in below : j <= i].id

(* finally { latest.signal = undefined; } *)
AgClear(stack, deco) == 0

(* latest: latest.signal = controller.signal;                              *)
(*         result = originalFn.apply(this, args): the operation starts.    *)
AgInvokeLatest ==
    /\ agCount < MaxAgCalls
    /\ agCount' = agCount + 1
    /\ agLatest' = agCount + 1
    /\ agStack' = Append(AgNested(agStack),
                         [id |-> agCount + 1, deco |-> "latest", nested |-> FALSE])
    /\ UNCHANGED << agDebounced, agSeen, agOthers >>

(* debounced: the then callback: debounced.signal = controller.signal;     *)
(*            return originalFn.apply(this, args): the operation starts.   *)
AgInvokeDebounced ==
    /\ agCount < MaxAgCalls
    /\ agStack = << >>
    /\ agCount' = agCount + 1
    /\ agDebounced' = agCount + 1
    /\ agStack' = << [id |-> agCount + 1, deco |-> "debounced", nested |-> FALSE] >>
    /\ UNCHANGED << agLatest, agSeen, agOthers >>

(* The operation that is executing reads the accessor of its decorator:    *)
(* const { signal } = latest.                                              *)
AgRead ==
    /\ agStack # << >>
    /\ agSeen' = [agSeen EXCEPT ![AgTop.id] =
                     @ \cup {IF AgTop.deco = "latest" THEN agLatest ELSE agDebounced}]
    /\ UNCHANGED << agStack, agLatest, agDebounced, agCount, agOthers >>

(* The operation that is executing returns or raises: the finally block    *)
(* of its wrapper runs and the operation below, if any, continues.         *)
AgLeave ==
    /\ agStack # << >>
    /\ agStack' = SubSeq(agStack, 1, Len(agStack) - 1)
    /\ IF AgTop.deco = "latest"
       THEN agLatest' = AgClear(agStack, "latest") /\ UNCHANGED agDebounced
       ELSE agDebounced' = AgClear(agStack, "debounced") /\ UNCHANGED agLatest
    /\ UNCHANGED << agCount, agSeen, agOthers >>

AgNext ==
    \/ AgInvokeLatest
    \/ AgInvokeDebounced
    \/ AgRead
    \/ AgLeave

---------------------------------------------------------------------------
(* Lifetime of the owners                                                  *)
(* The program drops its last reference to an owner; it makes no call on   *)
(* that owner afterwards.  Every storage is a Map<object, State>: a Map    *)
(* holds its keys and values strongly, so an owner that is a key of a      *)
(* storage stays reachable, with its record, through the decorated method. *)

GcInit == gcDropped = {}

(* Mutant: the storage is a WeakMap, which holds no key. *)
GcHoldsWeakly(storage, o) == FALSE

(* const storage = new Map<object, State>(): the Map holds the key o *)
GcHolds(storage, o) == o \in DOMAIN storage

(* The program drops its last reference to owner o. *)
GcDrop(o) ==
    /\ o \notin gcDropped
    /\ gcDropped' = gcDropped \cup {o}
    /\ UNCHANGED gcOthers

(* The call made in this step, if any, is made on an owner the program     *)
(* still refers to.                                                        *)
GcCallsAlive ==
    /\ sfCount' # sfCount => sfLast'.owner \notin gcDropped
    /\ mxCount' # mxCount => mxCall'[mxCount'].owner \notin gcDropped
    /\ ltCount' # ltCount => ltCall'[ltCount'].owner \notin gcDropped
    /\ dbCount' # dbCount => dbCall'[dbCount'].owner \notin gcDropped
    /\ caCount' # caCount => caLast'.owner \notin gcDropped
    /\ onCount' # onCount => onLast'.owner \notin gcDropped

(* The calls made so far on each decorator. *)
GcCounts ==
    [singleflight |-> sfCount, mutex |-> mxCount, latest |-> ltCount,
     debounced |-> dbCount, cached |-> caCount, once |-> onCount]

GcOnly(deco) == \A d \in DOMAIN GcCounts \ {deco} : GcCounts[d] = 0

---------------------------------------------------------------------------
(* @timeout(timeoutMs)                                                     *)
(* Every call has a controller and a timer of its own; there is no         *)
(* storage.  toNow is the clock of setTimeout, as for @debounced.  The     *)
(* finally callback is a Promise reaction and the timer callback is a job  *)
(* of its own: a reaction that is ready runs before any timer callback.    *)

ToIds == 1..MaxToCalls

ToHorizon == 2 * TimeoutMs

ToNoCall == [owner |-> "", at |-> 0, pos |-> "none", how |-> "none",
             timer |-> "none", firedAt |-> -1, aborts |-> 0, reason |-> << >>]

ToInit ==
    /\ toCall = [k \in ToIds |-> ToNoCall]
    /\ toCount = 0
    /\ toNow = 0

(* new TimeoutExceededError(timeoutMs): name and message *)
TimeoutExceededError(ms) == << "TimeoutExceededError", "timeout", ms, "ms exceeded" >>

(* setTimeout(..., timeoutMs) called at instant at *)
ToDue(at) == at + TimeoutMs

(* Mutant: clearTimeout does nothing. *)
ToClearNothing(timer) == timer

(* clearTimeout(id): a timer that has run is not changed. *)
ToClear(timer) == IF timer = "pending" THEN "cleared" ELSE timer

(* Mutant: abort() without a reason. *)
ToAbortPlain(call, reason) == [call EXCEPT !.aborts = @ + 1]

(* controller.abort(reason): the first abort sets the reason and fires the *)
(* abort event; a controller that is aborted is not changed.               *)
ToAbort(call, reason) ==
    IF call.aborts = 0 THEN [call EXCEPT !.aborts = 1, !.reason = reason] ELSE call

(* One call of the decorated method on owner o.  raises: the operation     *)
(* raises when invoked; the raise leaves the wrapper after the finally     *)
(* block, the timer is left running and there is no Promise.               *)
ToCall(o, raises) ==
    /\ toCount < MaxToCalls
    /\ toCount' = toCount + 1
    /\ toCall' = [toCall EXCEPT ![toCount + 1] =
           [ToNoCall EXCEPT !.owner = o, !.at = toNow, !.timer = "pending",
                            !.pos = IF raises THEN "raised" ELSE "running",
                            !.how = IF raises THEN "raised" ELSE "none"]]
    /\ UNCHANGED << toNow, toOthers >>

(* The environment settles the Promise the operation returned to call k. *)
ToOpSettle(k, how) ==
    /\ toCall[k].pos = "running"
    /\ toCall' = [toCall EXCEPT ![k] =
           [@ EXCEPT !.pos = "settled", !.how = how]]
    /\ UNCHANGED << toCount, toNow, toOthers >>

(* result.finally(() => { clearTimeout(id); }) *)
ToFinally(k) ==
    /\ toCall[k].pos = "settled"
    /\ toCall' = [toCall EXCEPT ![k] =
           [@ EXCEPT !.pos = "done", !.timer = ToClear(toCall[k].timer)]]
    /\ UNCHANGED << toCount, toNow, toOthers >>

(* The timer callback of call k:                                           *)
(* controller.abort(new TimeoutExceededError(timeoutMs))                   *)
ToFire(k) ==
    /\ toCall[k].timer = "pending"
    /\ toNow = ToDue(toCall[k].at)
    /\ \A j \in ToIds : toCall[j].pos # "settled"
    /\ toCall' = [toCall EXCEPT ![k] =
           [ToAbort(toCall[k], TimeoutExceededError(TimeoutMs))
               EXCEPT !.timer = "fired", !.firedAt = toNow]]
    /\ UNCHANGED << toCount, toNow, toOthers >>

(* One millisecond passes while a timer is pending; a timer that is due    *)
(* runs first.                                                             *)
ToTick ==
    /\ toNow < ToHorizon
    /\ \E k \in ToIds : toCall[k].timer = "pending"
    /\ \A k \in ToIds : toCall[k].timer = "pending" => toNow < ToDue(toCall[k].at)
    /\ toNow' = toNow + 1
    /\ UNCHANGED << toCall, toCount, toOthers >>

ToNext ==
    \/ \E o \in Owners, raises \in BOOLEAN : ToCall(o, raises)
    \/ \E k \in ToIds, how \in {"fulfilled", "rejected"} : ToOpSettle(k, how)
    \/ \E k \in ToIds : ToFinally(k)
    \/ \E k \in ToIds : ToFire(k)
    \/ ToTick

---------------------------------------------------------------------------
(* Specifications: one decorated method per specification; the decorators  *)
(* share no state.                                                         *)

Init == SfInit /\ MxInit /\ LtInit /\ DbInit /\ CaInit /\ OnInit /\ AgInit /\ GcInit /\ ToInit

SpecSingleflight == Init /\ [][SfNext]_vars

SpecMutex == Init /\ [][MxNext]_vars

(* The job queue runs every Promise reaction that is ready, and every      *)
(* operation that was started settles.  Nothing obliges a caller to call.  *)
MxFairness ==
    /\ WF_vars(\E k \in MxIds, raises \in BOOLEAN : MxRunQueued(k, raises))
    /\ WF_vars(\E k \in MxIds, how \in {"fulfilled", "rejected"} : MxOpSettle(k, how))
    /\ WF_vars(\E k \in MxIds : MxDeliver(k))
    /\ WF_vars(\E k \in MxIds : MxFinally(k))

SpecMutexFair == Init /\ [][MxNext]_vars /\ MxFairness

SpecLatest == Init /\ [][LtNext]_vars

SpecDebounced == Init /\ [][DbNext]_vars

(* @latest and @debounced share no state: a behaviour of the cancel-the-   *)
(* previous family is a behaviour of one of the two decorated methods.     *)
(* Neither reads its arguments; here call k of either passes a list of its *)
(* own, so that a result tells which call's arguments made it.             *)
LtArgsOf(k) == << k >>

CpLtNext ==
    \/ \E o \in Owners, raises \in BOOLEAN : LtCall(o, LtArgsOf(ltCount + 1), raises)
    \/ \E k \in LtIds, how \in {"fulfilled", "rejected"} : LtOpSettle(k, how)
    \/ \E k \in LtIds : LtReact(k)

CpNext ==
    \/ dbCount = 0 /\ dbNow = 0 /\ CpLtNext
    \/ ltCount = 0 /\ DbNext

SpecCancelPrevious == Init /\ [][CpNext]_vars

(* The same family for the question whether every returned Promise is     *)
(* settled in the end.  Time is not cut off at DbHorizon: a millisecond    *)
(* passes whenever a timer is pending and none is due, so every timer      *)
(* becomes due.  The job queue runs every timer callback that is due and   *)
(* every reaction that is ready, and every operation that was started      *)
(* settles.  Nothing obliges a caller to call.                             *)
DbElapse ==
    /\ \E k \in DbIds : dbCall[k].pos = "waiting"
    /\ \A k \in DbIds : dbCall[k].pos = "waiting" => dbNow < DbDue(dbCall[k].at)
    /\ dbNow' = dbNow + 1
    /\ UNCHANGED << dbStorage, dbState, dbCall, dbCount, dbOthers >>

CpLiveNext ==
    \/ dbCount = 0 /\ dbNow = 0 /\ CpLtNext
    \/ ltCount = 0 /\ \E o \in Owners : DbCall(o, DbArgsOf(dbCount + 1))
    \/ ltCount = 0 /\ \E k \in DbIds, raises \in BOOLEAN : DbFire(k, raises)
    \/ ltCount = 0 /\ \E k \in DbIds, how \in {"fulfilled", "rejected"} : DbOpSettle(k, how)
    \/ ltCount = 0 /\ \E k \in DbIds : DbReact(k)
    \/ ltCount = 0 /\ DbElapse

CpFairness ==
    /\ WF_vars(\E k \in LtIds, how \in {"fulfilled", "rejected"} : LtOpSettle(k, how))
    /\ WF_vars(\E k \in LtIds : LtReact(k))
    /\ WF_vars(ltCount = 0 /\ DbElapse)
    /\ WF_vars(\E k \in DbIds, raises \in BOOLEAN : ltCount = 0 /\ DbFire(k, raises))
    /\ WF_vars(\E k \in DbIds, how \in {"fulfilled", "rejected"} : DbOpSettle(k, how))
    /\ WF_vars(\E k \in DbIds : DbReact(k))

SpecCancelPreviousFair == Init /\ [][CpLiveNext]_vars /\ CpFairness

SpecCached == Init /\ [][CaNext]_vars

SpecOnce == Init /\ [][OnNext]_vars

(* @cached and @once share no state: a behaviour of the memoizing family   *)
(* is a behaviour of one of the two.                                       *)
MemoNext ==
    \/ onCount = 0 /\ CaNext
    \/ caCount = 0 /\ OnNext

SpecMemo == Init /\ [][MemoNext]_vars

---------------------------------------------------------------------------
(* @singleflight and @cached share no state and compare argument lists    *)
(* alike: a behaviour of one of the two, the cached function F being       *)
(* called with argument lists of different lengths as well.                *)
FpCaNext ==
    \/ \E o \in Owners, a \in ArgLists, kind \in {"value", "promise", "raise"} :
          CaCall("F", o, a, kind)
    \/ \E p \in CaIds, how \in {"fulfilled", "rejected"} : CaSettle(p, how)
    \/ \E p \in CaIds : CaCatch(p)
    \/ \E t \in {"F_original"} : CaInvalidate(t)

FpNext ==
    \/ caCount = 0 /\ SfNext
    \/ sfCount = 0 /\ FpCaNext

SpecFingerprint == Init /\ [][FpNext]_vars

(* The decorators whose result is awaited share no state: a behaviour of   *)
(* the four is a behaviour of one of them.                                 *)
AwNext ==
    \/ mxCount = 0 /\ ltCount = 0 /\ dbCount = 0 /\ SfNext
    \/ sfCount = 0 /\ ltCount = 0 /\ dbCount = 0 /\ MxNext
    \/ sfCount = 0 /\ mxCount = 0 /\ dbCount = 0 /\ CpLtNext
    \/ sfCount = 0 /\ mxCount = 0 /\ ltCount = 0 /\ DbNext

SpecAwaitable == Init /\ [][AwNext]_vars

(* @singleflight, @cached and @once keep entries by owner and share no     *)
(* state: a behaviour of the three is a behaviour of one of them.  Here    *)
(* the owners call @singleflight and @cached methods with one argument     *)
(* list, the same for all.                                                 *)
KeArgs == <<1>>

KeSfNext ==
    \/ \E o \in Owners, raises \in BOOLEAN : SfCall(o, KeArgs, raises)
    \/ \E p \in SfIds, how \in {"fulfilled", "rejected"} : SfSettle(p, how)
    \/ \E p \in SfIds : SfFinally(p)

KeCaNext ==
    \/ \E f \in CaFns, o \in Owners, kind \in {"value", "promise", "raise"} :
          CaCall(f, o, KeArgs, kind)
    \/ \E p \in CaIds, how \in {"fulfilled", "rejected"} : CaSettle(p, how)
    \/ \E p \in CaIds : CaCatch(p)
    \/ \E t \in CaTargets : CaInvalidate(t)

KeNext ==
    \/ caCount = 0 /\ onCount = 0 /\ KeSfNext
    \/ sfCount = 0 /\ onCount = 0 /\ KeCaNext
    \/ sfCount = 0 /\ caCount = 0 /\ OnNext

SpecKeyed == Init /\ [][KeNext]_vars

(* Two methods decorated with @mutex: each application of the decorator    *)
(* has a storage Map of its own, so a record is found by the method and    *)
(* the owner together.  The two Maps are kept as one, its keys naming the  *)
(* owner and the method; call k passes an argument list of its own.        *)
MmKeys == {"o1.save", "o1.load", "o2.save"}

MmOwner(key) == IF key = "o2.save" THEN "o2" ELSE "o1"

MmMethod(key) == IF key = "o1.load" THEN "load" ELSE "save"

MmArgsOf(k) == << k >>

MmNext ==
    \/ \E key \in MmKeys, raises \in BOOLEAN : MxCall(key, MmArgsOf(mxCount + 1), raises)
    \/ \E k \in MxIds, raises \in BOOLEAN : MxRunQueued(k, raises)
    \/ \E k \in MxIds, how \in {"fulfilled", "rejected"} : MxOpSettle(k, how)
    \/ \E k \in MxIds : MxDeliver(k)
    \/ \E k \in MxIds : MxFinally(k)

SpecMutexMethods == Init /\ [][MmNext]_vars

SpecAmbient == Init /\ [][AgNext]_vars

(* The decorators share no state: a behaviour is a behaviour of one of     *)
(* them, with owners being dropped.                                        *)
GcNext ==
    \/ \E o \in Owners : GcDrop(o)
    \/ GcOnly("singleflight") /\ KeSfNext /\ GcCallsAlive
    \/ GcOnly("mutex") /\ MxNext /\ GcCallsAlive
    \/ GcOnly("latest") /\ dbNow = 0 /\ CpLtNext /\ GcCallsAlive
    \/ GcOnly("debounced") /\ DbNext /\ GcCallsAlive
    \/ GcOnly("cached") /\ KeCaNext /\ GcCallsAlive
    \/ GcOnly("once") /\ OnNext /\ GcCallsAlive

SpecLifetime == Init /\ [][GcNext]_vars

SpecTimeout == Init /\ [][ToNext]_vars

(* C1 as stated: singleflight: a call made while a fingerprint-equal call  *)
(* of the same owner is unsettled returns that call's Outcome and does not *)
(* execute op; a call made after that Outcome has settled returns a new    *)
(* Outcome and executes op again.                                          *)
C1_AsStated ==
    sfCount > 0 =>
        /\ sfLast.inflight # {} => sfLast.ret \in sfLast.inflight /\ ~sfLast.exec
        /\ sfLast.inflight = {} /\ (sfLast.stale \cup sfLast.done) # {} =>
                sfLast.exec /\ sfLast.ret = sfCount

(* C1 amended: singleflight: a call made while a fingerprint-equal call of *)
(* the same owner is unsettled returns that call's Outcome and does not    *)
(* execute op; a call made after the Outcome has settled and its finally   *)
(* callback has removed the entry executes op again and returns the new    *)
(* Outcome op returns (or lets op's synchronous raise through); a call     *)
(* made after the settlement but before that callback has run still        *)
(* returns the settled Outcome and does not execute op.                    *)
C1_Sharing ==
    sfCount > 0 =>
        /\ sfLast.inflight # {} => sfLast.ret \in sfLast.inflight /\ ~sfLast.exec
        /\ sfLast.inflight = {} /\ sfLast.stale # {} =>
                sfLast.ret \in sfLast.stale /\ ~sfLast.exec
        /\ sfLast.inflight = {} /\ sfLast.stale = {} =>
                /\ sfLast.exec
                /\ sfLast.ret \notin sfLast.done
                /\ IF sfLast.raised THEN sfLast.ret = 0 ELSE sfLast.ret = sfCount

(* Witness of C1: the last call was made after an equal call's Outcome had *)
(* settled and been removed, and it executed op and got a new Outcome.     *)
C1_Witness ==
    /\ sfLast.done # {} /\ sfLast.inflight = {} /\ sfLast.stale = {}
    /\ sfLast.exec /\ sfLast.ret = sfCount

(* C2: singleflight: per owner and argument fingerprint, at most one       *)
(* execution of op has started and not yet settled.                        *)
C2_OneInFlight ==
    \A o \in Owners, a \in ArgLists : Cardinality(SfInFlight(o, a)) <= 1

(* Witness of C2: a second call with the same arguments was made while the *)
(* execution was pending, and there is still exactly one execution.        *)
C2_Witness ==
    /\ sfCount >= 2 /\ ~sfLast.exec /\ sfLast.inflight # {}
    /\ Cardinality(SfInFlight(sfLast.owner, sfLast.args)) = 1


(* The keys (args arrays, named by call numbers) of the entries in the     *)
(* record of owner o under @singleflight, before and after the step.       *)
SfKeys(o) ==
    IF o \in DOMAIN sfStorage
    THEN {sfStorage[o].calls[i].key : i \in 1..Len(sfStorage[o].calls)}
    ELSE {}

SfKeysAfter(o) ==
    IF o \in DOMAIN sfStorage'
    THEN {sfStorage'[o].calls[i].key : i \in 1..Len(sfStorage'[o].calls)}
    ELSE {}

(* C32: singleflight: the settlement observer of an execution removes the  *)
(* entry stored for that execution and no other entry of any owner; an     *)
(* entry is removed by nothing else, it is present as long as its          *)
(* execution is unsettled, and it is gone once the observer has run.       *)
C32_RemovesOwnEntry ==
    /\ [](\A p \in SfIds :
            LET o == sfPromise[p].owner
            IN  /\ sfPromise[p].status = "pending" => p \in SfKeys(o)
                /\ sfPromise[p].cleaned => \A x \in Owners : p \notin SfKeys(x))
    /\ [](\A x \in Owners : \A p \in SfKeys(x) :
            sfPromise[p].status # "none" /\ sfPromise[p].owner = x)
    /\ [][\A p \in SfIds :
            sfPromise'[p].cleaned /\ ~sfPromise[p].cleaned =>
                /\ sfPromise[p].status \in {"fulfilled", "rejected"}
                /\ p \in SfKeys(sfPromise[p].owner)
                /\ \A x \in Owners : SfKeysAfter(x) = SfKeys(x) \ {p}]_vars
    /\ [][\A x \in Owners : \A p \in SfKeys(x) \ SfKeysAfter(x) :
            sfPromise'[p].cleaned /\ ~sfPromise[p].cleaned]_vars

(* Witness of C32: the first execution settled and its observer ran while  *)
(* the entry of the second execution (same owner, other arguments) was in  *)
(* the record; a third execution with the arguments of the first was       *)
(* started afterwards.  Both later entries are in the record.              *)
C32_Witness ==
    /\ sfPromise[1].cleaned
    /\ sfPromise[2].status = "pending" /\ sfPromise[3].status = "pending"
    /\ sfPromise[2].owner = sfPromise[1].owner /\ sfPromise[3].owner = sfPromise[1].owner
    /\ sfPromise[2].args # sfPromise[1].args
    /\ FingerprintEqual(sfPromise[3].args, sfPromise[1].args)
    /\ SfKeys(sfPromise[1].owner) = {2, 3}
(* Observations on the calls of the mutex-decorated method. *)
MxCalled(k) == mxCall[k].pos # "none"

MxStarted(k) == mxCall[k].pos \in {"running", "settled", "delivered", "finished"}

MxInProgress(k) == mxCall[k].pos \in {"running", "settled", "delivered"}

MxBefore(j, k) == j < k /\ MxCalled(k) /\ mxCall[j].owner = mxCall[k].owner

MxUnfinished(o) == {k \in MxIds : mxCall[k].owner = o /\ mxCall[k].pos # "finished"}

(* C3: mutex: the calls of one owner start op in call order and complete   *)
(* in call order; a call starts only after every earlier call of the owner *)
(* has settled its Outcome and run its finalize.                           *)
C3_Fifo ==
    \A j, k \in MxIds : MxBefore(j, k) =>
        /\ MxStarted(k) => mxCall[j].pos = "finished" /\ mxCall[j].outcome # "pending"
        /\ mxCall[k].outcome # "pending" => mxCall[j].outcome # "pending"

(* Witness of C3: three calls queued one behind the other on one owner     *)
(* have all run and settled.                                               *)
C3_Witness ==
    \E i, j, k \in MxIds :
        /\ mxCall[j].pred = i /\ mxCall[k].pred = j
        /\ \A c \in {i, j, k} : mxCall[c].pos = "finished" /\ mxCall[c].outcome # "pending"

(* C4: mutex: per owner at most one execution of op is in progress         *)
(* (invoked, and its finalize not yet run).                                *)
C4_NoOverlap ==
    \A o \in Owners :
        Cardinality({k \in MxIds : mxCall[k].owner = o /\ MxInProgress(k)}) <= 1

(* Witness of C4: a call is running while two more calls of the same owner *)
(* wait behind it.                                                         *)
C4_Witness ==
    \E i, j, k \in MxIds :
        /\ mxCall[i].pos = "running"
        /\ mxCall[j].pos = "queued" /\ mxCall[j].pred = i
        /\ mxCall[k].pos = "queued" /\ mxCall[k].pred = j

(* C5: mutex: a rejected Outcome is that of the call whose own execution   *)
(* rejected or raised, and the Promise a call leaves in the tail is never  *)
(* rejected, so the continuation of the call queued behind it runs.        *)
C5_RejectionIsolated ==
    \A k \in MxIds :
        /\ mxCall[k].outcome = "rejected" =>
               /\ mxCall[k].how \in {"rejected", "raised"}
               /\ mxCall[k].value = << mxCall[k].how, mxCall[k].args >>
        /\ mxCall[k].pos = "queued" =>
               /\ mxCall[mxCall[k].pred].tailP \in {"pending", "fulfilled"}
               /\ mxCall[mxCall[k].pred].pos = "finished" =>
                      mxCall[mxCall[k].pred].tailP = "fulfilled"

(* Witness of C5: a call rejected asynchronously and the call queued       *)
(* behind it has run to a fulfilled Outcome.                               *)
C5_Witness ==
    \E j, k \in MxIds :
        /\ mxCall[k].pred = j
        /\ mxCall[j].how = "rejected" /\ mxCall[j].outcome = "rejected"
        /\ mxCall[k].pos = "finished" /\ mxCall[k].outcome = "fulfilled"

(* C6: mutex: when op raises synchronously, in the call or in the queued   *)
(* continuation, nothing is raised to the caller, the call's own Outcome   *)
(* rejects with the error, the pending count is released (it equals the    *)
(* number of unfinished calls, and the tail is unset at zero), and the     *)
(* call queued behind can run.                                             *)
C6_SyncRaise ==
    /\ \A k \in MxIds : mxCall[k].how = "raised" =>
           /\ ~mxCall[k].thrown /\ mxCall[k].ret = k
           /\ mxCall[k].outcome = "rejected"
           /\ mxCall[k].value = << "raised", mxCall[k].args >>
           /\ mxCall[k].pos = "finished"
           /\ mxCall[k].tailP \in {"none", "fulfilled"}
    /\ \A o \in DOMAIN mxStorage :
           /\ mxStorage[o].pending = Cardinality(MxUnfinished(o))
           /\ mxStorage[o].pending = 0 => ~(mxStorage[o].tail > 0)

(* Witness of C6: a queued call raised synchronously when it was run, and  *)
(* the call queued behind it has started.                                  *)
C6_Witness ==
    \E j, k \in MxIds :
        /\ mxCall[j].pred # 0 /\ mxCall[j].how = "raised"
        /\ mxCall[k].pred = j /\ MxStarted(k) /\ mxCall[k].how # "raised"

(* C7: mutex: every call returns a Promise of its own, and a settled       *)
(* Outcome carries the result of op applied to the arguments of that very  *)
(* call.                                                                   *)
C7_OwnOutcome ==
    /\ \A j, k \in MxIds : MxCalled(j) /\ MxCalled(k) /\ j # k =>
           mxCall[j].ret # mxCall[k].ret
    /\ \A k \in MxIds : mxCall[k].outcome # "pending" =>
           /\ mxCall[k].value = << mxCall[k].how, mxCall[k].args >>
           /\ mxCall[k].outcome = IF mxCall[k].how = "fulfilled" THEN "fulfilled"
                                                                ELSE "rejected"

(* Witness of C7: two calls of one owner, the second made while the first  *)
(* was running, with different arguments, both settled.                    *)
C7_Witness ==
    \E j, k \in MxIds :
        /\ j \in mxCall[k].during /\ mxCall[j].args # mxCall[k].args
        /\ mxCall[j].outcome # "pending" /\ mxCall[k].outcome # "pending"
        /\ mxCall[j].ret # mxCall[k].ret

C9_EventuallyStarts ==
    \A k \in MxIds : (mxCall[k].pos = "queued") ~> MxStarted(k)

(* Witness of C9: a call that had to wait has started. *)
C9_Witness ==
    \E k \in MxIds : mxCall[k].pred # 0 /\ mxCall[k].pos = "running"


(* The calls made so far on owner o, and whether a call is being made on   *)
(* o in this step.                                                         *)
MxCallsOn(o) == {j \in MxIds : mxCall[j].owner = o}

MxCallingOn(o) == mxCount' = mxCount + 1 /\ mxCall'[mxCount'].owner = o

(* The call made in this step invoked op within the call. *)
MxStartsInCall ==
    /\ mxCall'[mxCount'].pred = 0
    /\ mxCall'[mxCount'].pos \in {"running", "finished"}

(* C34 as stated: mutex: a call made when the Promise of every earlier     *)
(* call of its owner has settled starts executing op within the call.      *)
C34_AsStated ==
    [][\A o \in Owners :
          /\ MxCallingOn(o)
          /\ \A j \in MxCallsOn(o) : mxCall[j].outcome # "pending"
          => MxStartsInCall]_vars

(* C34: mutex: when finalize has run for every call made on an owner, the  *)
(* pending count is zero and the tail is not set, and a call made then     *)
(* starts executing op within the call; a call made after the Promise of   *)
(* the last pending call has settled but before its finalize has run finds *)
(* the tail set and is queued behind it.                                   *)
C34_ClearedAfterFinalize ==
    /\ [](\A o \in DOMAIN mxStorage :
            (\A j \in MxCallsOn(o) : mxCall[j].pos = "finished")
            => mxStorage[o].pending = 0 /\ mxStorage[o].tail \in {0, -1})
    /\ [][\A o \in Owners :
            /\ MxCallingOn(o)
            /\ \A j \in MxCallsOn(o) : mxCall[j].pos = "finished"
            => MxStartsInCall]_vars
    /\ [][\A o \in Owners :
            /\ MxCallingOn(o)
            /\ \E j \in MxCallsOn(o) : mxCall[j].pos = "delivered"
            => mxCall'[mxCount'].pos = "queued" /\ mxCall'[mxCount'].pred # 0]_vars

(* Witness of C34: the first call of an owner has settled and finalized;   *)
(* the second call, made afterwards on that owner, started op within the   *)
(* call and is the only pending one.                                       *)
C34_Witness ==
    /\ mxCount = 2
    /\ mxCall[1].pos = "finished" /\ mxCall[1].how \in {"fulfilled", "rejected"}
    /\ mxCall[2].owner = mxCall[1].owner
    /\ mxCall[2].idle /\ mxCall[2].pred = 0 /\ mxCall[2].pos = "running"
    /\ mxStorage[mxCall[1].owner] = [pending |-> 1, tail |-> 2]

(* C36: mutex: the pending count of an owner's record is the number of     *)
(* calls made on the owner whose finalize has not run; it is never         *)
(* negative; finalize runs once for every call (after a fulfilment, after  *)
(* a rejection, or in the call or continuation in which op raises) and     *)
(* lowers the count by one; the tail is not set when the count is zero.    *)
C36_PendingCount ==
    /\ [](\A o \in DOMAIN mxStorage :
            /\ mxStorage[o].pending = Cardinality(MxUnfinished(o) \cap MxCallsOn(o))
            /\ mxStorage[o].pending >= 0
            /\ mxStorage[o].pending = 0 => mxStorage[o].tail \in {0, -1})
    /\ [](\A k \in MxIds : MxCalled(k) => mxCall[k].owner \in DOMAIN mxStorage)
    /\ [][\A k \in MxIds :
            /\ mxCall[k].pos = "finished" => mxCall'[k].pos = "finished"
            /\ MxCalled(k) /\ mxCall[k].pos # "finished" /\ mxCall'[k].pos = "finished"
               => mxStorage'[mxCall[k].owner].pending
                      = mxStorage[mxCall[k].owner].pending - 1]_vars

(* Witness of C36: three calls on one owner, the first fulfilled, the      *)
(* second rejected, the third raised by op; all are finalized and the      *)
(* count is back to zero with no tail.                                     *)
C36_Witness ==
    /\ mxCount = 3
    /\ \A k \in MxIds : mxCall[k].owner = mxCall[1].owner /\ mxCall[k].pos = "finished"
    /\ mxCall[1].how = "fulfilled" /\ mxCall[2].how = "rejected" /\ mxCall[3].how = "raised"
    /\ mxStorage[mxCall[1].owner].pending = 0
    /\ mxStorage[mxCall[1].owner].tail \in {0, -1}
(* Observations on the calls of the latest-decorated method. *)
LtLastOfCycle(k) ==
    \A j \in LtIds : ltCall[j].sid = ltCall[k].sid => ltCall[j].callIndex <= ltCall[k].callIndex

LtLaterInCycle(b) ==
    {c \in LtIds : ltCall[c].sid = ltCall[b].sid /\ ltCall[c].callIndex >= ltCall[b].callIndex}

(* C10 as stated: when a call a is followed, before a's attempt settles,   *)
(* by a call b on the same owner, a settled Outcome of either call carries *)
(* the result of b's attempt.                                              *)
C10_AsStated ==
    \A b \in LtIds : ltCall[b].follows # 0 =>
        LET a == ltCall[b].follows
        IN  /\ ltCall[a].status # "pending" => ltCall[a].by = b
            /\ ltCall[b].status # "pending" => ltCall[b].by = b

(* C10 amended: when a call a is followed, before a's attempt settles, by  *)
(* a call b on the same owner, neither Outcome ever carries the result     *)
(* computed from a: an Outcome that settles carries the result of the      *)
(* attempt of b or of a later call of the same cycle.  When b's attempt    *)
(* reacts without having been superseded, both Outcomes carry the result   *)
(* computed from b's arguments; when op raises synchronously for b, b's    *)
(* Outcome rejects with that error and a's Outcome is not settled by b.    *)
C10_Supersession ==
    \A b \in LtIds : ltCall[b].follows # 0 =>
        LET a == ltCall[b].follows
        IN  /\ ltCall[a].owner = ltCall[b].owner /\ ltCall[a].sid = ltCall[b].sid
            /\ \A x \in {a, b} : ltCall[x].status # "pending" =>
                   /\ ltCall[x].by \in LtLaterInCycle(b)
                   /\ ltCall[x].value = << ltCall[ltCall[x].by].how, ltCall[ltCall[x].by].args >>
                   /\ ltCall[x].status = IF ltCall[ltCall[x].by].how = "fulfilled"
                                         THEN "fulfilled" ELSE "rejected"
            /\ ltCall[b].pos = "reacted" /\ LtLastOfCycle(b) =>
                   \A x \in {a, b} :
                       /\ ltCall[x].by = b
                       /\ ltCall[x].value = << ltCall[b].how, ltCall[b].args >>
            /\ ltCall[b].pos = "raised" =>
                   /\ ltCall[b].status = "rejected" /\ ltCall[b].by = b
                   /\ ltCall[a].by # b

(* Witness of C10: b followed a with other arguments, b's attempt reacted  *)
(* as the current one, and both Outcomes carry b's result.                 *)
C10_Witness ==
    \E b \in LtIds :
        /\ ltCall[b].follows # 0
        /\ ltCall[ltCall[b].follows].args # ltCall[b].args
        /\ ltCall[b].pos = "reacted" /\ LtLastOfCycle(b)
        /\ ltCall[ltCall[b].follows].pos = "reacted"
        /\ ltCall[ltCall[b].follows].by = b /\ ltCall[b].by = b

(* The operation has been invoked for call k. *)
LtInvoked(k) == ltCall[k].pos \in {"running", "settled", "reacted", "raised"}

(* C16: latest: the operation is invoked for a call in the step of the     *)
(* call itself and in no other step, hence once, and with the argument     *)
(* list of that call, whether or not an earlier attempt is in flight.      *)
C16_InvokedInCall ==
    /\ [](\A k \in LtIds : k <= ltCount =>
              LtInvoked(k) /\ ltCall[k].applied = ltCall[k].args)
    /\ [][\A k \in LtIds : LtInvoked(k)' /\ ~LtInvoked(k) =>
              ltCount' = k /\ ltCount = k - 1]_vars

(* Witness of C16: a call made while the attempt of an earlier call with   *)
(* other arguments was unsettled has invoked the operation with its own.   *)
C16_Witness ==
    \E k \in LtIds :
        /\ ltCall[k].follows # 0 /\ ltCall[k].pos = "running"
        /\ ltCall[ltCall[k].follows].pos = "running"
        /\ ltCall[k].applied = ltCall[k].args
        /\ ltCall[ltCall[k].follows].applied # ltCall[k].applied

(* Observations on the calls of the latest- and debounced-decorated        *)
(* methods.                                                                *)
LtSuperseded(k) ==
    \E j \in LtIds : j > k /\ ltCall[j].pos # "none" /\ ltCall[j].owner = ltCall[k].owner

DbSuperseded(k) ==
    \E j \in DbIds : j > k /\ dbCall[j].pos # "none" /\ dbCall[j].owner = dbCall[k].owner

DbLastOfCycle(k) ==
    \A j \in DbIds : dbCall[j].sid = dbCall[k].sid => dbCall[j].callIndex <= dbCall[k].callIndex

DbCycle(k) == {j \in DbIds : dbCall[j].pos # "none" /\ dbCall[j].sid = dbCall[k].sid}

DbExecuted(k) == dbCall[k].firedAt >= 0

(* Every call of the cycle of k but k itself was followed, within delayMs, *)
(* by the next call of the cycle.                                          *)
DbQuietBurst(k) ==
    \A j \in DbCycle(k) \ {k} :
        \E n \in DbCycle(k) : /\ dbCall[n].callIndex = dbCall[j].callIndex + 1
                              /\ dbCall[n].at < dbCall[j].at + DelayMs

LtOutcomes == [k \in LtIds |-> << ltCall[k].status, ltCall[k].by, ltCall[k].value >>]

DbOutcomes == [k \in DbIds |-> << dbCall[k].status, dbCall[k].by, dbCall[k].value >>]

(* The reaction of a superseded attempt settles no Promise and leaves the  *)
(* owner's record as it is.                                                *)
LtDiscards ==
    \A k \in LtIds :
        ltCall[k].pos = "settled" /\ ltCall'[k].pos = "reacted" /\ LtSuperseded(k) =>
            /\ LtOutcomes' = LtOutcomes
            /\ ltStorage' = ltStorage /\ ltState' = ltState

DbDiscards ==
    \A k \in DbIds :
        dbCall[k].pos = "settled" /\ dbCall'[k].pos = "reacted" /\ DbSuperseded(k) =>
            /\ DbOutcomes' = DbOutcomes
            /\ dbStorage' = dbStorage /\ dbState' = dbState
            /\ \A j \in DbIds : dbCall'[j].pos = "waiting" <=> dbCall[j].pos = "waiting"

(* A Promise is settled by the attempt of the call that is the last one of *)
(* its cycle (or, in latest, rejected by the raise of its own call).       *)
LtSettledByLast ==
    \A x \in LtIds : ltCall[x].by # 0 =>
        \/ LtLastOfCycle(ltCall[x].by) /\ ltCall[ltCall[x].by].sid = ltCall[x].sid
        \/ ltCall[x].by = x /\ ltCall[x].pos = "raised"

DbSettledByLast ==
    \A x \in DbIds : dbCall[x].by # 0 =>
        DbLastOfCycle(dbCall[x].by) /\ dbCall[dbCall[x].by].sid = dbCall[x].sid

(* C11: latest/debounced: when the reaction of an attempt runs after a     *)
(* newer call on the same owner, it settles no Promise and changes nothing *)
(* in the owner's record (resolvers, callIndex, controller, timeout, the   *)
(* storage entry); a Promise is only ever settled by the attempt of the    *)
(* most recent call of its cycle.                                          *)
C11_StaleDiscarded ==
    /\ [](LtSettledByLast /\ DbSettledByLast)
    /\ [][LtDiscards /\ DbDiscards]_vars

(* Witness of C11: in latest, the attempt of a superseded call has settled *)
(* and reacted, and its Promise is still pending.                          *)
C11_Witness ==
    \E k \in LtIds :
        /\ LtSuperseded(k) /\ ltCall[k].pos = "reacted"
        /\ ltCall[k].how = "fulfilled" /\ ltCall[k].status = "pending"

(* The attempt of call k has started and its reaction has not run yet. *)
LtInFlight(k) == ltCall[k].pos \in {"running", "settled"}

DbInFlight(k) == dbCall[k].pos \in {"running", "settled"}

LtAborts == [k \in LtIds |-> ltCall[k].aborts]

DbAborts == [k \in DbIds |-> dbCall[k].aborts]

(* A step aborts a token exactly when it is a new call on the owner of an  *)
(* attempt in flight whose token has not been aborted yet.                 *)
LtAbortExact ==
    \A k \in LtIds :
        ltCall'[k].aborts - ltCall[k].aborts =
            IF /\ ltCount' = ltCount + 1
               /\ ltCall'[ltCount'].owner = ltCall[k].owner
               /\ LtInFlight(k) /\ ltCall[k].aborts = 0
            THEN 1 ELSE 0

DbAbortExact ==
    \A k \in DbIds :
        dbCall'[k].aborts - dbCall[k].aborts =
            IF /\ dbCount' = dbCount + 1
               /\ dbCall'[dbCount'].owner = dbCall[k].owner
               /\ DbInFlight(k) /\ dbCall[k].aborts = 0
            THEN 1 ELSE 0

(* As LtAbortExact, but a new call also aborts the token of the previous   *)
(* call of the cycle when the operation of that call raised synchronously. *)
LtAbortExactOrRaised ==
    \A k \in LtIds :
        ltCall'[k].aborts - ltCall[k].aborts =
            IF /\ ltCount' = ltCount + 1
               /\ ltCall'[ltCount'].owner = ltCall[k].owner
               /\ ltCall[k].aborts = 0
               /\ \/ LtInFlight(k)
                  \/ ltCall[k].pos = "raised" /\ ltCall'[ltCount'].sid = ltCall[k].sid
            THEN 1 ELSE 0

(* C12: latest/debounced: a new call on an owner aborts the token of that  *)
(* owner's attempt in flight, once; no other step aborts a token, and no   *)
(* token is aborted when its attempt is not in flight or a second time.    *)
C12_AsStated ==
    /\ [](\A k \in LtIds : ltCall[k].aborts <= 1)
    /\ [](\A k \in DbIds : dbCall[k].aborts <= 1)
    /\ [][LtAbortExact /\ DbAbortExact]_vars

(* C12, what the code does: as stated in debounced; in latest a new call   *)
(* also aborts the token of a call whose operation raised synchronously.   *)
C12_ExceptRaised ==
    /\ [](\A k \in LtIds : ltCall[k].aborts <= 1)
    /\ [](\A k \in DbIds : dbCall[k].aborts <= 1)
    /\ [][LtAbortExactOrRaised /\ DbAbortExact]_vars

(* Witness of C12: in latest, the token of a call whose operation raised   *)
(* synchronously has been aborted by the next call.                        *)
C12_Witness ==
    \E k \in LtIds : ltCall[k].pos = "raised" /\ ltCall[k].aborts = 1

LtCycle(k) == {j \in LtIds : ltCall[j].pos # "none" /\ ltCall[j].sid = ltCall[k].sid}

(* The reaction of call k ran when no later call had been made on its      *)
(* record: it was the current attempt.                                     *)
LtDelivered(k) == ltCall[k].pos = "reacted" /\ LtLastOfCycle(k)

DbDelivered(k) == dbCall[k].pos = "reacted" /\ DbLastOfCycle(k)

(* The owner's record of the cycle of k is gone from the storage. *)
LtCleared(k) ==
    ltCall[k].owner \in DOMAIN ltStorage => ltStorage[ltCall[k].owner] # ltCall[k].sid

DbCleared(k) ==
    dbCall[k].owner \in DOMAIN dbStorage => dbStorage[dbCall[k].owner] # dbCall[k].sid

LtOwnWaiters ==
    \A s \in DOMAIN ltState :
        /\ \A i \in 1..Len(ltState[s].resolvers) : ltCall[ltState[s].resolvers[i]].sid = s
        /\ ltState[s].callIndex = Cardinality({j \in LtIds : ltCall[j].sid = s}) - 1

DbOwnWaiters ==
    \A s \in DOMAIN dbState :
        /\ \A i \in 1..Len(dbState[s].resolvers) : dbCall[dbState[s].resolvers[i]].sid = s
        /\ dbState[s].callIndex = Cardinality({j \in DbIds : dbCall[j].sid = s}) - 1

(* A call made on an owner after the attempt of call k was handled as the  *)
(* current one belongs to another cycle.                                   *)
LtFreshAfter ==
    \A k, n \in LtIds :
        /\ LtDelivered(k) /\ n > k /\ ltCall[n].pos # "none"
        /\ ltCall[n].owner = ltCall[k].owner
        => ltCall[n].sid # ltCall[k].sid

DbFreshAfter ==
    \A k, n \in DbIds :
        /\ DbDelivered(k) /\ n > k /\ dbCall[n].pos # "none"
        /\ dbCall[n].owner = dbCall[k].owner
        => dbCall[n].sid # dbCall[k].sid

LtTouched ==
    {ltCall'[j].owner : j \in {i \in LtIds : ltCall'[i] # ltCall[i]}}
    \cup {o \in Owners : ~KeSameRecord(ltStorage, ltStorage', o)}
    \cup {ltCall[j].owner : j \in {i \in LtIds : ltCall[i].pos # "none"
                                                 /\ ltState'[ltCall[i].sid] # ltState[ltCall[i].sid]}}

DbTouched ==
    {dbCall'[j].owner : j \in {i \in DbIds : dbCall'[i] # dbCall[i]}}
    \cup {o \in Owners : ~KeSameRecord(dbStorage, dbStorage', o)}
    \cup {dbCall[j].owner : j \in {i \in DbIds : dbCall[i].pos # "none"
                                                 /\ dbState'[dbCall[i].sid] # dbState[dbCall[i].sid]}}

(* The owner this step is made for: the owner of the new call, or of the   *)
(* call whose timer, settlement or reaction the step is.                   *)
LtActor ==
    IF ltCount' # ltCount THEN {ltCall'[ltCount'].owner}
    ELSE {ltCall[j].owner : j \in {i \in LtIds : ltCall'[i].pos # ltCall[i].pos}}

DbActor ==
    IF dbCount' # dbCount THEN {dbCall'[dbCount'].owner}
    ELSE {dbCall[j].owner : j \in {i \in DbIds : dbCall'[i].pos # dbCall[i].pos}}

(* C26: latest/debounced: a step made for one owner (a call, a timer, a    *)
(* settlement, a reaction) changes nothing of another owner: no token is   *)
(* aborted, no timer cleared or set, no call version or waiter list        *)
(* changed, no Promise settled; the waiters of a state object and the      *)
(* attempt that settles a Promise are of the owner of that object and of   *)
(* that Promise, and the result delivered is computed from the arguments   *)
(* of a call of that owner.                                                *)
C26_OwnerFrame ==
    /\ [][LtTouched \subseteq LtActor /\ Cardinality(LtActor) <= 1]_vars
    /\ [][DbTouched \subseteq DbActor /\ Cardinality(DbActor) <= 1]_vars
    /\ [](\A k \in LtIds : ltCall[k].pos # "none" =>
              /\ \A i \in 1..Len(ltState[ltCall[k].sid].resolvers) :
                     ltCall[ltState[ltCall[k].sid].resolvers[i]].owner = ltCall[k].owner
              /\ ltCall[k].by # 0 =>
                     /\ ltCall[ltCall[k].by].owner = ltCall[k].owner
                     /\ ltCall[k].value[2] = ltCall[ltCall[k].by].args)
    /\ [](\A k \in DbIds : dbCall[k].pos # "none" =>
              /\ \A i \in 1..Len(dbState[dbCall[k].sid].resolvers) :
                     dbCall[dbState[dbCall[k].sid].resolvers[i]].owner = dbCall[k].owner
              /\ dbCall[k].by # 0 =>
                     /\ dbCall[dbCall[k].by].owner = dbCall[k].owner
                     /\ dbCall[k].value[2] = dbCall[dbCall[k].by].args)

(* Witness of C26: a call on one owner was followed, before its timer ran, *)
(* by a call on the other owner; the timer of the first ran at its own     *)
(* time, its token was not aborted, and its Promise is fulfilled with the  *)
(* result computed from its own arguments.                                 *)
C26_Witness ==
    /\ dbCall[1].owner # dbCall[2].owner /\ dbCall[2].pos # "none"
    /\ dbCall[2].at < DbDue(dbCall[1].at)
    /\ dbCall[1].firedAt = DbDue(dbCall[1].at) /\ dbCall[1].aborts = 0
    /\ dbCall[1].status = "fulfilled" /\ dbCall[1].by = 1
    /\ dbCall[1].value = << "fulfilled", dbCall[1].args >>


(* C37 as stated: latest and debounced: the Promise returned by any call   *)
(* is settled in the end, given that the callers stop calling and every    *)
(* started attempt settles (fairness of SpecCancelPreviousFair; the number *)
(* of calls is finite).                                                    *)
C37_AsStated ==
    /\ \A k \in LtIds : (ltCall[k].pos # "none") ~> (ltCall[k].status # "pending")
    /\ \A k \in DbIds : (dbCall[k].pos # "none") ~> (dbCall[k].status # "pending")

(* What holds instead of C37: under the same fairness the Promise of every *)
(* call of the debounced method is settled in the end; the Promise of a    *)
(* call of the method decorated with @latest is settled in the end unless  *)
(* op raised synchronously in a later call on the same owner.              *)
C37_UnlessLaterRaise ==
    /\ \A k \in LtIds :
           (ltCall[k].pos # "none") ~>
               \/ ltCall[k].status # "pending"
               \/ \E j \in LtIds : /\ j > k /\ ltCall[j].how = "raised"
                                   /\ ltCall[j].sid = ltCall[k].sid
    /\ \A k \in DbIds : (dbCall[k].pos # "none") ~> (dbCall[k].status # "pending")

(* Witness of C37: the attempt of the first call has settled and its       *)
(* reaction has run, finding itself superseded by the second call, in      *)
(* which op raised; the Promise of the first call is pending, and no       *)
(* attempt and no reaction is left to settle it.                           *)
C37_Witness ==
    /\ ltCount = 2
    /\ ltCall[1].pos = "reacted" /\ ltCall[1].status = "pending"
    /\ ltCall[2].owner = ltCall[1].owner /\ ltCall[2].how = "raised"
    /\ ltCall[2].status = "rejected"
    /\ \A k \in LtIds : ltCall[k].pos \notin {"running", "settled"}

(* The attempts of owner o that have started, whose operation has not      *)
(* settled, and whose token has not been aborted.                          *)
LtLive(o) ==
    {k \in LtIds : ltCall[k].owner = o /\ ltCall[k].pos = "running" /\ ltCall[k].aborts = 0}

DbLive(o) ==
    {k \in DbIds : dbCall[k].owner = o /\ dbCall[k].pos = "running" /\ dbCall[k].aborts = 0}

(* C38: latest and debounced: among the attempts of one owner that have    *)
(* started and not settled, at most one has a token that is not aborted,   *)
(* and it is the attempt of the most recent call made on the owner; in     *)
(* debounced no such attempt exists while a timer of the owner is pending. *)
C38_OneLiveToken ==
    /\ \A o \in Owners :
           /\ Cardinality(LtLive(o)) <= 1
           /\ \A k \in LtLive(o) : \A j \in LtIds : ltCall[j].owner = o => j <= k
    /\ \A o \in Owners :
           /\ Cardinality(DbLive(o)) <= 1
           /\ \A k \in DbLive(o) : \A j \in DbIds : dbCall[j].owner = o => j <= k
           /\ (\E j \in DbIds : dbCall[j].owner = o /\ dbCall[j].pos = "waiting")
              => DbLive(o) = {}

(* Witness of C38: three attempts of one owner under @latest are running;  *)
(* the tokens of the first two are aborted, that of the third is not.      *)
C38_Witness ==
    /\ ltCount = 3
    /\ \A k \in LtIds : ltCall[k].owner = ltCall[1].owner /\ ltCall[k].pos = "running"
    /\ ltCall[1].aborts = 1 /\ ltCall[2].aborts = 1 /\ ltCall[3].aborts = 0
(* C13: debounced(d): op is executed for a call only when d ms have        *)
(* elapsed since that call and since every earlier call of the owner, and  *)
(* a pending timer is never overdue; in a burst (each call followed within *)
(* d ms by the next, none after the last) op is executed once, for the     *)
(* last call and with its arguments, and once that execution has been      *)
(* handled the Promises of all calls of the burst carry its result.        *)
C13_Burst ==
    \A k \in DbIds :
        /\ DbExecuted(k) =>
               \A j \in DbIds : dbCall[j].pos # "none" /\ dbCall[j].owner = dbCall[k].owner =>
                   \/ dbCall[j].at + DelayMs <= dbCall[k].firedAt
                   \/ j > k /\ dbCall[j].at >= dbCall[k].firedAt
        /\ dbCall[k].pos = "waiting" => dbNow <= dbCall[k].at + DelayMs
        /\ dbCall[k].pos # "none" /\ DbLastOfCycle(k) /\ DbQuietBurst(k) =>
               /\ \A j \in DbCycle(k) \ {k} : ~DbExecuted(j)
               /\ dbCall[k].pos = "reacted" =>
                      \A j \in DbCycle(k) :
                          /\ dbCall[j].by = k
                          /\ dbCall[j].value = << dbCall[k].how, dbCall[k].args >>
                          /\ dbCall[j].status = IF dbCall[k].how = "fulfilled"
                                                THEN "fulfilled" ELSE "rejected"

(* Witness of C13: a burst of three calls at different instants, executed  *)
(* once for the third, all three Promises fulfilled.                       *)
C13_Witness ==
    \E k \in DbIds :
        /\ Cardinality(DbCycle(k)) = 3 /\ DbLastOfCycle(k) /\ DbQuietBurst(k)
        /\ \A i, j \in DbCycle(k) : i # j => dbCall[i].at # dbCall[j].at
        /\ dbCall[k].pos = "reacted"
        /\ \A j \in DbCycle(k) : dbCall[j].status = "fulfilled" /\ dbCall[j].by = k

(* C14: debounced(d): a call that arrives while the owner's timer is       *)
(* pending cancels it and starts a new quiet period: a call followed on    *)
(* its owner by another call before its timer ran is never executed, its   *)
(* successor's timer runs d ms after the successor's arrival, and an owner *)
(* has at most one pending timer.                                          *)
C14_Restart ==
    /\ \A o \in Owners :
           Cardinality({k \in DbIds : dbCall[k].owner = o /\ dbCall[k].pos = "waiting"}) <= 1
    /\ \A j, k \in DbIds :
           /\ j < k /\ dbCall[k].pos # "none" /\ dbCall[j].owner = dbCall[k].owner
           /\ dbCall[k].at < dbCall[j].at + DelayMs
           => dbCall[j].pos = "cleared" /\ ~DbExecuted(j)
    /\ \A k \in DbIds :
           /\ dbCall[k].pos = "cleared" => ~DbExecuted(k) /\ DbSuperseded(k)
           /\ dbCall[k].pos = "waiting" => ~DbSuperseded(k)
           /\ DbExecuted(k) => dbCall[k].firedAt = dbCall[k].at + DelayMs

(* Witness of C14: a call arrived one ms after another on the same owner;  *)
(* the first was never executed, the second was, d ms after its arrival.   *)
C14_Witness ==
    \E j, k \in DbIds :
        /\ j < k /\ dbCall[j].owner = dbCall[k].owner
        /\ dbCall[k].at = dbCall[j].at + 1
        /\ dbCall[j].pos = "cleared"
        /\ DbExecuted(k) /\ dbCall[k].firedAt = dbCall[k].at + DelayMs

(* Observations on the cached functions. *)
CaStored(f, o) ==
    IF o \in DOMAIN caStorage[f]
    THEN {caStorage[f][o][i].key : i \in 1..Len(caStorage[f][o])}
    ELSE {}

CaExecution(k) == caPromise[k].kind # "none"

C19_InvalidateScope ==
    /\ [][\A g \in CaFns : caStorage'[g] # caStorage[g] =>
              \A t \in CaTargets : CaOperationOf(t) # g => ~CaInvalidate(t)]_vars
    /\ [](\A k \in CaIds :
              /\ CaExecution(k) /\ ~caPromise[k].cleared
              /\ ~(caPromise[k].status = "rejected" /\ caPromise[k].caught)
              => k \in CaStored(caPromise[k].fn, caPromise[k].owner))

(* Witness of C19: F and G each stored a result for the same owner and the *)
(* same arguments; F was invalidated and the result of G is still stored.  *)
C19_Witness ==
    /\ caPromise[1].fn = "F" /\ caPromise[2].fn = "G"
    /\ caPromise[1].owner = caPromise[2].owner /\ caPromise[1].args = caPromise[2].args
    /\ caPromise[1].cleared /\ ~caPromise[2].cleared
    /\ CaStored("F", caPromise[1].owner) = {}
    /\ CaStored("G", caPromise[2].owner) = {2}

(* C20: cached.invalidate(f), f being the original or the patched function *)
(* of a cached operation, empties the storage that operation looks up, for *)
(* every owner (no step that leaves a result stored for the operation is   *)
(* an invalidation of it): no invalidated result stays stored, and a call  *)
(* is served a                                                             *)
(* stored result only if it has not been invalidated, so the next call     *)
(* with invalidated arguments executes op again.                           *)
C20_InvalidateClears ==
    /\ [][\A f \in CaFns : (\E o \in Owners : CaStored(f, o)' # {}) /\ caCount' = caCount =>
              \A t \in CaTargets : CaOperationOf(t) = f => ~CaInvalidate(t)]_vars
    /\ [](\A f \in CaFns, o \in Owners :
              \A k \in CaStored(f, o) : ~caPromise[k].cleared)
    /\ [](caCount > 0 =>
              /\ ~caLast.exec => caLast.ret \in caLast.live
              /\ caLast.live = {} => caLast.exec)

(* Witness of C20: a result was stored, its function was invalidated       *)
(* through the original function, and the next call with the same          *)
(* arguments on the same owner executed op again.                          *)
C20_Witness ==
    /\ caCount = 2 /\ caLast.exec /\ caLast.ret = 2
    /\ caPromise[1].cleared /\ caPromise[1].status = "value"
    /\ caPromise[1].fn = caLast.fn /\ caPromise[1].owner = caLast.owner
    /\ caPromise[1].args = caLast.args


(* The Promise of call p, made before an invalidation of its function,     *)
(* settles in this step or has its rejection handled in this step.         *)
CaLateStep(p) ==
    /\ caPromise[p].cleared
    /\ \/ caPromise'[p].status # caPromise[p].status
       \/ caPromise'[p].caught # caPromise[p].caught

(* Entry q was stored after an invalidation that removed the entry of an   *)
(* earlier call of the same function on the same owner.                    *)
CaAfterInvalidate(q) ==
    /\ CaExecution(q) /\ ~caPromise[q].cleared
    /\ \E p \in CaIds : /\ p < q /\ caPromise[p].cleared
                        /\ caPromise[p].fn = caPromise[q].fn
                        /\ caPromise[p].owner = caPromise[q].owner

(* C40: cached: the result of a call made before cached.invalidate(f) is   *)
(* never in the storage again: its late rejection or fulfilment changes no *)
(* storage.  An entry stored after the invalidation stays until its own    *)
(* rejection is handled or its function is invalidated, and the scan of a  *)
(* call with fingerprint-equal arguments finds it.                         *)
C40_LateSettlementKeepsEntry ==
    /\ [](\A p \in CaIds : caPromise[p].cleared =>
            \A f \in CaFns, o \in Owners : p \notin CaStored(f, o))
    /\ [][\A p \in CaIds : CaLateStep(p) => caStorage' = caStorage]_vars
    /\ [](\A q \in CaIds :
            CaAfterInvalidate(q) /\ ~(caPromise[q].status = "rejected" /\ caPromise[q].caught)
            => LET calls == caStorage[caPromise[q].fn][caPromise[q].owner]
                   i     == CaLookup(calls, caPromise[q].args)
               IN  i # 0 /\ calls[i].key = q /\ calls[i].result = q)

(* Witness of C40: the first call returned a Promise; its function was     *)
(* invalidated; the second call, same function, owner and arguments,       *)
(* executed op and stored its result; then the first Promise rejected and  *)
(* its catch callback ran.  The entry of the second call is in the record. *)
C40_Witness ==
    /\ caCount = 2
    /\ caPromise[1].cleared /\ caPromise[1].status = "rejected" /\ caPromise[1].caught
    /\ caPromise[2].fn = caPromise[1].fn /\ caPromise[2].owner = caPromise[1].owner
    /\ caPromise[2].args = caPromise[1].args
    /\ ~caPromise[2].cleared /\ caPromise[2].status \in {"value", "pending"}
    /\ CaStored(caPromise[2].fn, caPromise[2].owner) = {2}
(* Observations on the method decorated with @once. *)
OnStored(o) ==
    IF o \in DOMAIN onStorage /\ onStorage[o].key # 0 THEN {onStorage[o].key} ELSE {}

OnExecution(k) == onPromise[k].kind \in {"value", "promise"}

(* The call made in this step, on a cached function or on the method       *)
(* decorated with @once, got a stored result in the given set.             *)
CaServed(set) ==
    /\ caCount' = caCount + 1
    /\ ~caLast'.exec
    /\ caLast'.ret \in set

OnServed(set) ==
    /\ onCount' = onCount + 1
    /\ ~onLast'.exec
    /\ onLast'.ret \in set

(* C21 as stated: cached and once: once the Promise of a memoized call has *)
(* rejected, no call is served that Promise.                               *)
C21_AsStated ==
    /\ [][~CaServed({k \in CaIds : caPromise[k].status = "rejected"})]_vars
    /\ [][~OnServed({k \in OnIds : onPromise[k].status = "rejected"})]_vars

(* C21: cached and once: a memoized Promise that has rejected is not in    *)
(* the store once its catch callback has run, and no call made after that  *)
(* is served it: the next call with fingerprint-equal arguments on the     *)
(* same owner executes op again.                                           *)
C21_NotRetained ==
    /\ [](\A k \in CaIds : caPromise[k].status = "rejected" /\ caPromise[k].caught
              => k \notin CaStored(caPromise[k].fn, caPromise[k].owner))
    /\ [](\A k \in OnIds : onPromise[k].status = "rejected" /\ onPromise[k].caught
              => k \notin OnStored(onPromise[k].owner))
    /\ [][~CaServed({k \in CaIds : caPromise[k].status = "rejected" /\ caPromise[k].caught})]_vars
    /\ [][~OnServed({k \in OnIds : onPromise[k].status = "rejected" /\ onPromise[k].caught})]_vars
    /\ [](caCount = 2 /\ caPromise[1].status = "rejected" /\ caPromise[1].caught
          /\ ~caPromise[1].cleared /\ caLast.fn = caPromise[1].fn
          /\ caLast.owner = caPromise[1].owner
          /\ FingerprintEqual(caLast.args, caPromise[1].args)
          /\ caLast.live = {} => caLast.exec)

(* Witness of C21: the Promise of the first call rejected and its catch    *)
(* callback ran; the second call, same function, owner and arguments,      *)
(* executed op again.                                                      *)
C21_Witness ==
    /\ caCount = 2 /\ caLast.exec /\ caLast.ret = 2
    /\ caPromise[1].status = "rejected" /\ caPromise[1].caught /\ ~caPromise[1].cleared
    /\ caPromise[1].fn = caLast.fn /\ caPromise[1].owner = caLast.owner
    /\ caPromise[1].args = caLast.args

(* The executions of the method decorated with @once on owner o with an    *)
(* argument list fingerprint-equal to a.                                   *)
OnExecutionsOf(o, a) ==
    {k \in OnIds : /\ onPromise[k].kind # "none" /\ onPromise[k].owner = o
                   /\ FingerprintEqual(onPromise[k].args, a)}

OnNoFailure ==
    \A k \in OnIds : onPromise[k].status \in {"none", "value", "fulfilled"}

(* C22 as stated: once: as long as no call fails, the method body is       *)
(* executed at most once for every owner and every argument list.          *)
C22_AsStated ==
    OnNoFailure =>
        \A o \in Owners, a \in OnArgLists : Cardinality(OnExecutionsOf(o, a)) <= 1

(* What holds instead of C22: the owner's record holds the arguments and   *)
(* the result of the last execution only; a call is served the stored      *)
(* result iff its arguments are fingerprint-equal to those, and executes   *)
(* the method body otherwise.                                              *)
C22_LastArgumentsOnly ==
    /\ [](\A o \in DOMAIN onStorage : onStorage[o].key # 0 =>
              /\ OnExecution(onStorage[o].key)
              /\ \A k \in OnIds : OnExecution(k) /\ onPromise[k].owner = o
                                  => k <= onStorage[o].key)
    /\ [][onCount' = onCount + 1 =>
              (onLast'.exec <=> OnStored(onLast'.owner) = {}
                                \/ \E k \in OnStored(onLast'.owner) :
                                       ~FingerprintEqual(onPromise[k].args, onLast'.args))]_vars

(* Witness of C22: three calls on one owner, none failing: the third has   *)
(* the arguments of the first and executes the method body again.          *)
C22_Witness ==
    /\ onCount = 3 /\ OnNoFailure
    /\ \A k \in OnIds : onPromise[k].kind = "value" /\ onPromise[k].owner = onLast.owner
    /\ onPromise[1].args = onPromise[3].args /\ onPromise[2].args # onPromise[1].args
    /\ onLast.exec /\ onLast.ret = 3


(* The call made in this step on the method decorated with @once finds, in *)
(* the record of its owner, arguments fingerprint-equal to its own.        *)
OnFindsEqual ==
    LET o == onLast'.owner
    IN  /\ o \in DOMAIN onStorage
        /\ onStorage[o].key # 0
        /\ FingerprintEqual(onStorage[o].args, onLast'.args)

(* The entry of owner o after the step is the one written by call k.       *)
OnEntryAfter(o, k) ==
    /\ o \in DOMAIN onStorage'
    /\ onStorage'[o].key = k
    /\ k # 0 => onStorage'[o].args = onPromise'[k].args /\ onStorage'[o].result = k

(* C31 as stated: once: a call whose arguments are not fingerprint-equal   *)
(* to the stored ones executes op and replaces the stored entry, so that   *)
(* the entry of its owner is the one of the most recent such call.         *)
C31_AsStated ==
    [][onCount' = onCount + 1 /\ ~OnFindsEqual
          => onLast'.exec /\ OnEntryAfter(onLast'.owner, onCount')]_vars

(* C31: once: the record of an owner holds at most one entry.  A call      *)
(* whose arguments are fingerprint-equal to the stored ones is served the  *)
(* stored result and changes nothing.  Any other call executes op; if op   *)
(* returns, the entry is replaced by the arguments and the result of this  *)
(* call; if op raises, the entry stays as it was.                          *)
C31_LastCallWins ==
    [][onCount' = onCount + 1 =>
          LET o    == onLast'.owner
              was  == IF o \in DOMAIN onStorage THEN onStorage[o].key ELSE 0
          IN  /\ \A x \in DOMAIN onStorage \ {o} :
                     x \in DOMAIN onStorage' /\ onStorage'[x] = onStorage[x]
              /\ IF OnFindsEqual
                 THEN /\ ~onLast'.exec
                      /\ onLast'.ret = was
                      /\ OnEntryAfter(o, was)
                 ELSE /\ onLast'.exec
                      /\ IF onLast'.raised
                         THEN OnEntryAfter(o, was)
                         ELSE /\ OnEntryAfter(o, onCount')
                              /\ onLast'.ret = onCount']_vars

(* Witness of C31: the second call on an owner has other arguments than    *)
(* the first; op returned and the entry of the owner is the second call's. *)
C31_Witness ==
    /\ onCount = 2 /\ onLast.exec /\ ~onLast.raised
    /\ onPromise[1].kind = "value" /\ onPromise[1].owner = onLast.owner
    /\ onPromise[1].args # onLast.args
    /\ onLast.owner \in DOMAIN onStorage
    /\ onStorage[onLast.owner].key = 2
    /\ onStorage[onLast.owner].args = onLast.args

(* The catch callback of an earlier call of owner o runs in this step      *)
(* while the entry of o is that of a later call.                           *)
OnLateCatch(o) ==
    \E p \in OnIds :
        /\ onPromise'[p].caught /\ ~onPromise[p].caught
        /\ onPromise[p].owner = o
        /\ \E q \in OnStored(o) : q > p

(* C39: once: the catch callback of a rejected Promise whose entry has     *)
(* been replaced by that of a later call leaves the record of the owner as *)
(* it is; the entry of the last call whose op returned stays until its own *)
(* rejection is handled, and a call with fingerprint-equal arguments made  *)
(* after the late rejection is served it and does not execute op.          *)
C39_LateRejectionKeepsEntry ==
    /\ [][\A o \in Owners : OnLateCatch(o) => onStorage' = onStorage]_vars
    /\ [](\A q \in OnIds :
            /\ OnExecution(q)
            /\ \A j \in OnIds : OnExecution(j) /\ onPromise[j].owner = onPromise[q].owner
                                => j <= q
            /\ ~(onPromise[q].status = "rejected" /\ onPromise[q].caught)
            => OnStored(onPromise[q].owner) = {q})
    /\ [][\A o \in Owners : \A q \in OnStored(o) :
            /\ onCount' = onCount + 1 /\ onLast'.owner = o
            /\ \E p \in OnIds : p < q /\ onPromise[p].owner = o /\ onPromise[p].caught
            /\ Len(onLast'.args) = Len(onPromise[q].args)
            /\ \A i \in 1..Len(onLast'.args) : onLast'.args[i] = onPromise[q].args[i]
            => ~onLast'.exec /\ onLast'.ret = q]_vars

(* Witness of C39: the Promise of the first call rejected and its catch    *)
(* callback ran after the second call, with other arguments, had replaced  *)
(* the entry; the third call, with the arguments of the second, was served *)
(* the result of the second.                                               *)
C39_Witness ==
    /\ onCount = 3
    /\ onPromise[1].status = "rejected" /\ onPromise[1].caught
    /\ onPromise[2].owner = onPromise[1].owner /\ onPromise[2].args # onPromise[1].args
    /\ OnExecution(2)
    /\ onLast.owner = onPromise[1].owner /\ onLast.args = onPromise[2].args
    /\ ~onLast.exec /\ onLast.ret = 2
    /\ OnStored(onLast.owner) = {2}
(* The argument lists of the entries an owner has in the Map of calls of   *)
(* the method decorated with @singleflight, and of the cached function f.  *)
SfStoredArgs(o) ==
    IF o \in DOMAIN sfStorage
    THEN [i \in 1..Len(sfStorage[o].calls) |-> sfStorage[o].calls[i].args]
    ELSE << >>

CaStoredArgs(f, o) ==
    IF o \in DOMAIN caStorage[f]
    THEN [i \in 1..Len(caStorage[f][o]) |-> caStorage[f][o][i].args]
    ELSE << >>

(* No two entries of one Map of calls hold the same argument list. *)
FpDistinct(lists) ==
    \A i, j \in 1..Len(lists) : i # j => lists[i] # lists[j]

(* C23: singleflight and cached: a call is served the entry of an earlier  *)
(* call only if the two argument lists have the same length and the same   *)
(* element at every position, and then it is served whenever such an entry *)
(* is in flight (singleflight) or stored (cached); argument lists that     *)
(* differ in length or in an element have entries, executions and results  *)
(* of their own.                                                           *)
C23_Fingerprint ==
    /\ sfCount > 0 =>
           /\ ~sfLast.exec =>
                  /\ Len(sfPromise[sfLast.ret].args) = Len(sfLast.args)
                  /\ \A i \in 1..Len(sfLast.args) :
                         sfPromise[sfLast.ret].args[i] = sfLast.args[i]
           /\ sfLast.exec => sfLast.inflight = {}
    /\ caCount > 0 =>
           /\ ~caLast.exec =>
                  /\ Len(caPromise[caLast.ret].args) = Len(caLast.args)
                  /\ \A i \in 1..Len(caLast.args) :
                         caPromise[caLast.ret].args[i] = caLast.args[i]
           /\ caLast.exec =>
                  \A k \in caLast.live : caPromise[k].args # caLast.args
    /\ \A o \in Owners : FpDistinct(SfStoredArgs(o))
    /\ \A f \in CaFns, o \in Owners : FpDistinct(CaStoredArgs(f, o))

(* Witness of C23: on one owner, a call with <<1>> and a call with         *)
(* <<1, 2>> each executed and have entries of their own in the Map, and a  *)
(* third call, with <<1, 2>>, was served the entry of the second.          *)
C23_Witness ==
    /\ sfCount = 3 /\ ~sfLast.exec /\ sfLast.ret = 2 /\ sfLast.args = <<1, 2>>
    /\ sfPromise[1].args = <<1>> /\ sfPromise[1].owner = sfLast.owner
    /\ sfPromise[2].owner = sfLast.owner
    /\ SfStoredArgs(sfLast.owner) = << <<1>>, <<1, 2>> >>


(* Two of the argument lists stored in one record have the same length and *)
(* the same element at every position.                                     *)
FpClash(lists) ==
    \E i, j \in 1..Len(lists) :
        /\ i < j
        /\ Len(lists[i]) = Len(lists[j])
        /\ \A n \in 1..Len(lists[i]) : lists[i][n] = lists[j][n]

(* C33: singleflight and cached: the record of an owner never holds two    *)
(* entries whose argument lists are fingerprint-equal.                     *)
C33_NoEqualEntries ==
    /\ \A o \in Owners : ~FpClash(SfStoredArgs(o))
    /\ \A f \in CaFns, o \in Owners : ~FpClash(CaStoredArgs(f, o))

(* Witness of C33: the record of an owner holds the entries of two         *)
(* executions, and a third call, with the arguments of the first entry,    *)
(* was served that entry and added none.                                   *)
C33_Witness ==
    /\ sfCount = 3 /\ ~sfLast.exec /\ sfLast.ret = 1
    /\ Len(SfStoredArgs(sfLast.owner)) = 2
    /\ SfStoredArgs(sfLast.owner)[1] = sfLast.args
    /\ SfStoredArgs(sfLast.owner)[2] # sfLast.args
(* The operation raised when call k invoked it, and the Promise call k     *)
(* returned is rejected with that error: @mutex, @latest, and @debounced   *)
(* when the attempt of k was still the current one at its catch callback.  *)
MxRaiseRejects(k) ==
    mxCall[k].how = "raised" =>
        /\ ~mxCall[k].thrown /\ mxCall[k].ret = k
        /\ mxCall[k].outcome = "rejected"
        /\ mxCall[k].value = << "raised", mxCall[k].args >>

LtRaiseRejects(k) ==
    ltCall[k].how = "raised" =>
        /\ ltCall[k].status = "rejected" /\ ltCall[k].by = k
        /\ ltCall[k].value = << "raised", ltCall[k].args >>

DbRaiseRejects(k) ==
    dbCall[k].how = "raised" /\ DbDelivered(k) =>
        /\ dbCall[k].status = "rejected" /\ dbCall[k].by = k
        /\ dbCall[k].value = << "raised", dbCall[k].args >>

(* C24 as stated: singleflight, mutex, latest, debounced: when the         *)
(* operation raises synchronously, the raise does not reach the caller;    *)
(* the call returns a Promise that rejects with that error.                *)
C24_AsStated ==
    /\ sfCount > 0 => ~sfLast.raised
    /\ \A k \in MxIds : MxRaiseRejects(k)
    /\ \A k \in LtIds : LtRaiseRejects(k)
    /\ \A k \in DbIds : DbRaiseRejects(k)

(* What holds instead of C24: mutex, latest and debounced turn the raise   *)
(* into a rejection of the returned Promise; in singleflight the call that *)
(* invoked the operation returns nothing, the raise reaches its caller.    *)
C24_ExceptSingleflight ==
    /\ sfCount > 0 /\ sfLast.raised => sfLast.exec /\ sfLast.ret = 0
    /\ \A k \in MxIds : MxRaiseRejects(k)
    /\ \A k \in LtIds : LtRaiseRejects(k)
    /\ \A k \in DbIds : DbRaiseRejects(k)

(* Witness of C24: a call of the method decorated with @singleflight       *)
(* invoked the operation, which raised.                                    *)
C24_Witness ==
    sfCount > 0 /\ sfLast.exec /\ sfLast.raised

(* The owner this step works for: the owner of the call made, or the owner *)
(* of the execution whose Promise settles or whose callback runs.          *)
SfStepOwners ==
    IF sfCount' # sfCount THEN {sfLast'.owner}
    ELSE {sfPromise[p].owner : p \in {q \in SfIds : sfPromise'[q] # sfPromise[q]}}

CaStepOwners ==
    IF caCount' # caCount THEN {caLast'.owner}
    ELSE {caPromise[p].owner : p \in {q \in CaIds : caPromise'[q].status # caPromise[q].status
                                                   \/ caPromise'[q].caught # caPromise[q].caught}}

OnStepOwners ==
    IF onCount' # onCount THEN {onLast'.owner}
    ELSE {onPromise[p].owner : p \in {q \in OnIds : onPromise'[q] # onPromise[q]}}

(* C25: singleflight, cached and once: a call is served only a result that *)
(* a call on the same owner obtained, whatever the arguments; a call on an *)
(* owner, and the callbacks of its executions, leave the record of every   *)
(* other owner as it is (cached.invalidate is no call on an owner).        *)
C25_OwnerIsolation ==
    /\ [](sfCount > 0 /\ sfLast.ret # 0 => sfPromise[sfLast.ret].owner = sfLast.owner)
    /\ [](caCount > 0 /\ caLast.ret # 0 => /\ caPromise[caLast.ret].owner = caLast.owner
                                           /\ caPromise[caLast.ret].fn = caLast.fn)
    /\ [](onCount > 0 /\ onLast.ret # 0 => onPromise[onLast.ret].owner = onLast.owner)
    /\ [][\A o \in Owners \ SfStepOwners : KeSameRecord(sfStorage, sfStorage', o)]_vars
    /\ [][\A o \in Owners \ OnStepOwners : KeSameRecord(onStorage, onStorage', o)]_vars
    /\ [][CaStepOwners # {} =>
              \A f \in CaFns, o \in Owners \ CaStepOwners :
                  KeSameRecord(caStorage[f], caStorage'[f], o)]_vars

(* Witness of C25: two owners called the method decorated with             *)
(* @singleflight with the same arguments; the second call, made while the  *)
(* execution of the first was in flight, executed for itself, and each     *)
(* owner has its own entry.                                                *)
C25_Witness ==
    /\ sfCount = 2 /\ sfLast.exec /\ sfLast.ret = 2
    /\ sfPromise[1].status = "pending" /\ sfPromise[1].args = sfLast.args
    /\ sfPromise[1].owner # sfLast.owner
    /\ \A o \in Owners : o \in DOMAIN sfStorage /\ Len(sfStorage[o].calls) = 1


MmTouched ==
    {mxCall'[j].owner : j \in {i \in MxIds : mxCall'[i] # mxCall[i]}}
    \cup {key \in MmKeys : ~KeSameRecord(mxStorage, mxStorage', key)}

MmActor ==
    IF mxCount' # mxCount THEN {mxCall'[mxCount'].owner}
    ELSE {mxCall[j].owner : j \in {i \in MxIds : mxCall'[i].pos # mxCall[i].pos}}

(* C27: mutex: the queues of different owners, and of different decorated  *)
(* methods of one owner, are independent: a step made for one queue        *)
(* changes nothing of another; a call waits only behind a call of its own  *)
(* owner and method; a call made when every earlier call of its own queue  *)
(* has finished starts at once, and a queued call whose predecessor has    *)
(* finished can start, whatever the other queues are doing.                *)
C27_Independent ==
    /\ [][MmTouched \subseteq MmActor /\ Cardinality(MmActor) <= 1]_vars
    /\ [](\A k \in MxIds : MxCalled(k) =>
              /\ mxCall[k].idle => mxCall[k].pos # "queued" /\ mxCall[k].pred = 0
              /\ mxCall[k].pred # 0 => mxCall[mxCall[k].pred].owner = mxCall[k].owner
              /\ mxCall[k].pos = "queued" /\ mxCall[mxCall[k].pred].pos = "finished"
                     => ENABLED MxRunQueued(k, FALSE))

(* Witness of C27: three executions are in progress at once: two methods   *)
(* of one owner, and the same method on another owner.                     *)
C27_Witness ==
    /\ \A k \in 1..3 : mxCall[k].pos = "running"
    /\ {mxCall[k].owner : k \in 1..3} = MmKeys
    /\ \E j, k \in 1..3 : /\ MmOwner(mxCall[j].owner) = MmOwner(mxCall[k].owner)
                          /\ MmMethod(mxCall[j].owner) # MmMethod(mxCall[k].owner)

(* The value of the accessor of the decorator of the operation that is     *)
(* executing.                                                              *)
AgAccessor == IF AgTop.deco = "latest" THEN agLatest ELSE agDebounced

(* C28 as stated: latest/debounced: while the operation of an attempt is   *)
(* executing its synchronous part, the accessor of its decorator holds the *)
(* token of that attempt, so the operation reads nothing else; both        *)
(* accessors are undefined when no operation is being invoked.             *)
C28_AsStated ==
    /\ agStack # << >> => AgAccessor = AgTop.id
    /\ \A k \in AgIds : agSeen[k] \subseteq {k}
    /\ agStack = << >> => agLatest = 0 /\ agDebounced = 0

(* What holds instead of C28: an operation reads its own token or          *)
(* undefined, never the token of another attempt; it reads its own token   *)
(* as long as it has called no method decorated with @latest, and always   *)
(* under @debounced unless it made such a call (which leaves               *)
(* debounced.signal alone); both accessors are undefined when no operation *)
(* is being invoked.                                                       *)
C28_OwnOrUndefined ==
    /\ \A k \in AgIds : agSeen[k] \subseteq {0, k}
    /\ agStack # << >> => AgAccessor \in {0, AgTop.id}
    /\ agStack # << >> /\ (~AgTop.nested \/ AgTop.deco = "debounced") => AgAccessor = AgTop.id
    /\ agStack = << >> => agLatest = 0 /\ agDebounced = 0

(* Witness of C28: the operation of an attempt under @latest called        *)
(* another method decorated with @latest, whose operation read its own     *)
(* token and returned; the first operation, still in its synchronous part, *)
(* then read undefined.                                                    *)
C28_Witness ==
    /\ Len(agStack) = 1 /\ agStack[1].id = 1 /\ agStack[1].deco = "latest"
    /\ agSeen[2] = {2} /\ 0 \in agSeen[1]

(* Nothing is in progress for owner o: every execution started on it has   *)
(* settled and every callback, continuation and timer of its calls has     *)
(* run or been cleared, so that no closure of a decorator is pending that  *)
(* refers to the owner or to its record.                                   *)
GcQuiet(o) ==
    /\ \A p \in SfIds : sfPromise[p].owner = o =>
           sfPromise[p].status # "pending" /\ sfPromise[p].cleaned
    /\ \A k \in MxIds : mxCall[k].owner = o => mxCall[k].pos = "finished"
    /\ \A k \in LtIds : ltCall[k].owner = o => ltCall[k].pos \in {"reacted", "raised"}
    /\ \A k \in DbIds : dbCall[k].owner = o => dbCall[k].pos \in {"reacted", "cleared"}
    /\ \A k \in CaIds : caPromise[k].owner = o =>
           /\ caPromise[k].status # "pending"
           /\ caPromise[k].status = "rejected" => caPromise[k].caught
    /\ \A k \in OnIds : onPromise[k].owner = o =>
           /\ onPromise[k].status # "pending"
           /\ onPromise[k].status = "rejected" => onPromise[k].caught

(* A storage of some decorator holds owner o. *)
GcHeld(o) ==
    \/ GcHolds(sfStorage, o)
    \/ GcHolds(mxStorage, o)
    \/ GcHolds(ltStorage, o)
    \/ GcHolds(dbStorage, o)
    \/ \E f \in CaFns : GcHolds(caStorage[f], o)
    \/ GcHolds(onStorage, o)

(* C29 as stated: for every strategy, once the program refers to an owner  *)
(* no more (and nothing is in progress for it), no storage holds the owner *)
(* or its record.                                                          *)
C29_AsStated ==
    \A o \in gcDropped : GcQuiet(o) => ~GcHeld(o)

(* What holds instead of C29: debounced, and latest when the operation did *)
(* not raise synchronously, delete the record of an owner when its cycle   *)
(* ends, so they hold no owner for which nothing is in progress; the other *)
(* decorators keep every owner that was ever called.                       *)
C29_CancelPreviousOnly ==
    \A o \in Owners : GcQuiet(o) =>
        /\ ~GcHolds(dbStorage, o)
        /\ (\A k \in LtIds : ltCall[k].owner = o => ltCall[k].pos # "raised")
               => ~GcHolds(ltStorage, o)
        /\ (\E p \in SfIds : sfPromise[p].owner = o) => GcHolds(sfStorage, o)
        /\ (\E k \in MxIds : mxCall[k].owner = o) => GcHolds(mxStorage, o)

(* Witness of C29: an owner was called once under @singleflight, the       *)
(* execution settled and its finally callback ran, the program dropped the *)
(* owner, and the storage still holds it.                                  *)
C29_Witness ==
    \E o \in gcDropped :
        /\ GcQuiet(o) /\ GcHolds(sfStorage, o)
        /\ \E p \in SfIds : sfPromise[p].owner = o /\ sfPromise[p].cleaned
        /\ sfStorage[o].calls = << >>

(* Call k of the method decorated with @timeout returned a Promise. *)
ToReturned(k) == toCall[k].pos \in {"running", "settled", "done"}

(* The signal of call k is aborted in this step. *)
ToAborting(k) == toCall'[k].aborts > toCall[k].aborts

(* C30: timeout(ms): the signal of a call that returned a Promise is       *)
(* aborted at most once, by its own timer, ms milliseconds after the call, *)
(* with a TimeoutExceededError whose message is 'timeout <ms>ms exceeded', *)
(* and only while the Promise is unsettled; once ms milliseconds have      *)
(* passed with the Promise unsettled the signal is aborted.  When the      *)
(* Promise settles first, the finally callback clears the timer and the    *)
(* signal is never aborted.  A step changes the timer, the signal and the  *)
(* Promise of one call only.                                               *)
C30_Timeout ==
    /\ [](\A k \in ToIds : ToReturned(k) =>
              /\ toCall[k].aborts <= 1
              /\ toCall[k].aborts = 1 <=> toCall[k].timer = "fired"
              /\ toCall[k].aborts = 1 =>
                     /\ toCall[k].firedAt = toCall[k].at + TimeoutMs
                     /\ toCall[k].reason =
                            << "TimeoutExceededError", "timeout", TimeoutMs, "ms exceeded" >>
              /\ toNow > toCall[k].at + TimeoutMs /\ toCall[k].pos = "running"
                     => toCall[k].aborts = 1
              /\ toCall[k].pos = "done" /\ toCall[k].timer # "fired"
                     => toCall[k].timer = "cleared" /\ toCall[k].aborts = 0)
    /\ [][\A k \in ToIds :
              /\ ToAborting(k) /\ ToReturned(k) =>
                     toCall[k].pos = "running" /\ toNow = toCall[k].at + TimeoutMs
              /\ toCall[k].timer = "cleared" =>
                     toCall'[k].timer = "cleared" /\ toCall'[k].aborts = 0]_vars
    /\ [][Cardinality({k \in ToIds : toCall'[k] # toCall[k]}) <= 1]_vars

(* Witness of C30: two calls on one owner were in progress together; the   *)
(* Promise of the first settled in time, its timer was cleared and its     *)
(* signal is not aborted after its time has passed; the second was still   *)
(* unsettled when its time had passed, and its signal is aborted.          *)
C30_Witness ==
    /\ toCall[1].owner = toCall[2].owner
    /\ toCall[1].pos = "done" /\ toCall[1].timer = "cleared" /\ toCall[1].aborts = 0
    /\ toCall[2].pos = "running" /\ toCall[2].timer = "fired" /\ toCall[2].aborts = 1
    /\ toCall[2].at < toCall[1].at + TimeoutMs
    /\ toNow > toCall[1].at + TimeoutMs

=============================================================================
